---- MODULE Spec2Model ----
(***************************************************************************)
(* REST-Response-Comparator: host normalisation, placeholder resolution    *)
(* and the request scheduler (executeRequest / executeCurlBatch).          *)
(*                                                                         *)
(* Text is a sequence of symbols.  A symbol is one character ("/", "a",    *)
(* " ") or one lexical unit that the code only ever handles as a whole:    *)
(* the scheme prefixes "http://" and "https://" and the placeholder        *)
(* "{host}".                                                               *)
(***************************************************************************)
EXTENDS Integers, Sequences, FiniteSets, TLC

\* ------------------------------------------------------------------ bounds
\* longest url of a parsed command, in symbols
MaxUrlLen == 3
\* longest text after the host name in a host text, in symbols
MaxPathLen == 3

\* --------------------------------------------------------------- alphabet
HOST == "{host}"
HTTP == "http://"
HTTPS == "https://"
Schemes == {HTTP, HTTPS}

\* all sequences over S of length 0..n
SeqsUpTo(S, n) == UNION {[1..k -> S] : k \in 0..n}

\* ----------------------------------------------------------- string tools
\* String.prototype.startsWith
StartsWith(s, p) == Len(s) >= Len(p) /\ SubSeq(s, 1, Len(p)) = p

\* String.prototype.endsWith
EndsWith(s, p) == Len(s) >= Len(p) /\ SubSeq(s, Len(s) - Len(p) + 1, Len(s)) = p

\* String.prototype.includes for a one-symbol needle
Includes(s, sym) == \E i \in 1..Len(s) : s[i] = sym

\* String.prototype.indexOf for a one-symbol needle, 1-based, 0 when absent
IndexOf(s, sym) ==
  IF Includes(s, sym) THEN CHOOSE i \in 1..Len(s) : s[i] = sym /\ \A j \in 1..(i - 1) : s[j] # sym
  ELSE 0

\* s.replace(/\/+$/, '')
RECURSIVE StripTrailingSlashes(_)
StripTrailingSlashes(s) ==
  IF s # <<>> /\ s[Len(s)] = "/" THEN StripTrailingSlashes(SubSeq(s, 1, Len(s) - 1)) ELSE s

\* s.replace(/^\/+/, '')
RECURSIVE StripLeadingSlashes(_)
StripLeadingSlashes(s) ==
  IF s # <<>> /\ s[1] = "/" THEN StripLeadingSlashes(Tail(s)) ELSE s

\* the whitespace symbols (\s): blank, line feed, carriage return
BACKSLASH == "\\"
LF == "\n"
CR == "\r"
WhiteSpace == {" ", LF, CR}

\* String.prototype.trimEnd: the text up to its last non-whitespace character
TrimEnd(s) ==
  LET P == {i \in 1..Len(s) : s[i] \notin WhiteSpace}
  IN  IF P = {} THEN <<>> ELSE SubSeq(s, 1, CHOOSE i \in P : \A j \in P : j <= i)

\* String.prototype.trimStart: the text from its first non-whitespace character
TrimStart(s) ==
  LET P == {i \in 1..Len(s) : s[i] \notin WhiteSpace}
  IN  IF P = {} THEN <<>> ELSE SubSeq(s, CHOOSE i \in P : \A j \in P : i <= j, Len(s))

\* String.prototype.trim
Trim(s) == TrimEnd(TrimStart(s))

\* s.split(sym)[1]: the text between the first and the second occurrence of
\* sym (or up to the end when there is no second one)
SplitSecond(s, sym) ==
  LET afterFirst == SubSeq(s, IndexOf(s, sym) + 1, Len(s))
  IN  IF Includes(afterFirst, sym) THEN SubSeq(afterFirst, 1, IndexOf(afterFirst, sym) - 1)
      ELSE afterFirst

\* s.replaceAll(sym, by)
RECURSIVE ReplaceAll(_, _, _)
ReplaceAll(s, sym, by) ==
  IF s = <<>> THEN <<>>
  ELSE (IF s[1] = sym THEN by ELSE <<s[1]>>) \o ReplaceAll(Tail(s), sym, by)

\* ------------------------------------------------------- WHATWG URL parser
\* new URL(absolute) for a text made of a scheme symbol, letters, "/", " ",
\* ":" and the digit "1".  After a special scheme every leading "/" is
\* skipped; the authority runs up to the next "/".  A ":" splits it into
\* hostname and port; an empty hostname, a hostname holding a space or a
\* scheme, or a port that is not a number makes the constructor throw
\* (ok = FALSE); an empty port is dropped; an empty path reads back as "/".
\* "1.1.1.1" is one symbol, an IPv4 literal; hostnames are letters.
UrlFail == [ok |-> FALSE, protocol |-> <<>>, host |-> <<>>, hostname |-> <<>>, pathname |-> <<>>]

UrlOf(scheme, hostname, port, path) ==
  IF \/ hostname = <<>> \/ Includes(hostname, " ")
     \/ Includes(hostname, HTTP) \/ Includes(hostname, HTTPS)
     \/ \E i \in 1..Len(port) : port[i] # "1"
    THEN UrlFail
    ELSE [ok |-> TRUE, protocol |-> <<scheme>>,
          host |-> IF port = <<>> THEN hostname ELSE hostname \o <<":">> \o port,
          hostname |-> hostname, pathname |-> path]
\* the authority split at its first ":" (colon is its position, 0 for none)
SplitAuthority(scheme, authority, colon, path) ==
  UrlOf(scheme,
        IF colon = 0 THEN authority ELSE SubSeq(authority, 1, colon - 1),
        IF colon = 0 THEN <<>> ELSE SubSeq(authority, colon + 1, Len(authority)),
        path)
\* the text r after the scheme and its slashes, split at its first "/" (cut)
SplitAtPath(scheme, r, cut) ==
  IF cut = 0 THEN SplitAuthority(scheme, r, IndexOf(r, ":"), <<"/">>)
  ELSE SplitAuthority(scheme, SubSeq(r, 1, cut - 1), IndexOf(SubSeq(r, 1, cut - 1), ":"),
                      SubSeq(r, cut, Len(r)))
AfterSlashes(scheme, r) == SplitAtPath(scheme, r, IndexOf(r, "/"))
ParseAfterScheme(scheme, rest) == AfterSlashes(scheme, StripLeadingSlashes(rest))

NewURL(s) ==
  IF s # <<>> /\ s[1] \in Schemes THEN ParseAfterScheme(s[1], Tail(s)) ELSE UrlFail

\* URL.prototype.toString
Href(u) == u.protocol \o u.host \o u.pathname

\* the directory of a path: everything up to and including its last "/"
RECURSIVE DirOf(_)
DirOf(p) == IF p = <<>> \/ p[Len(p)] = "/" THEN p ELSE DirOf(SubSeq(p, 1, Len(p) - 1))

\* new URL(u, base): relative resolution
NewURLWithBase(u, base) ==
  IF u # <<>> /\ u[1] \in Schemes THEN NewURL(u)
  ELSE LET b == NewURL(base)
       IN  IF ~b.ok THEN UrlFail
           ELSE IF u = <<>> THEN b
           ELSE IF Len(u) >= 2 /\ u[1] = "/" /\ u[2] = "/" THEN ParseAfterScheme(b.protocol[1], u)
           ELSE IF u[1] = "/" THEN [b EXCEPT !.pathname = u]
           ELSE [b EXCEPT !.pathname = DirOf(b.pathname) \o u]

\* ---------------------------------------------------------------- parseHost
\* the variant that defaults to https
parseHostHttps(input) ==
  LET trimmed == Trim(input)
      urlString == IF ~StartsWith(trimmed, <<HTTP>>) /\ ~StartsWith(trimmed, <<HTTPS>>)
                     THEN <<HTTPS>> \o trimmed ELSE trimmed
      url == NewURL(urlString)
      full == url.protocol \o url.host \o url.pathname
      normalizedUrl == IF Len(full) > 1 /\ EndsWith(full, <<"/">>)
                         THEN SubSeq(full, 1, Len(full) - 1) ELSE full
  IN  IF url.ok
        THEN [original |-> trimmed, normalized |-> normalizedUrl, hostname |-> url.hostname]
        ELSE [original |-> trimmed, normalized |-> <<HTTPS>> \o trimmed, hostname |-> trimmed]

parseHost(input) ==
  LET trimmed == Trim(input)
      urlString == IF ~StartsWith(trimmed, <<HTTP>>) /\ ~StartsWith(trimmed, <<HTTPS>>)
                     THEN <<HTTP>> \o trimmed ELSE trimmed
      url == NewURL(urlString)
      full == url.protocol \o url.host \o url.pathname
      normalizedUrl == IF Len(full) > 1 /\ EndsWith(full, <<"/">>)
                         THEN SubSeq(full, 1, Len(full) - 1) ELSE full
  IN  IF url.ok
        THEN [original |-> trimmed, normalized |-> normalizedUrl, hostname |-> url.hostname]
        ELSE [original |-> trimmed, normalized |-> <<HTTP>> \o trimmed, hostname |-> trimmed]

\* ------------------------------------------------- replaceHostInParsedCurl
\* the join that always puts a slash after the base
replaceHostAlwaysSlash(parsedCurl, host) ==
  LET urlToResolve == parsedCurl.url
      suffix == SplitSecond(urlToResolve, HOST)
      base == StripTrailingSlashes(host.normalized)
      path == StripLeadingSlashes(suffix)
      finalUrl == NewURLWithBase(urlToResolve, host.normalized)
  IN  IF Includes(urlToResolve, HOST)
        THEN [parsedCurl EXCEPT !.url = base \o <<"/">> \o path]
        ELSE IF finalUrl.ok THEN [parsedCurl EXCEPT !.url = Href(finalUrl)] ELSE parsedCurl

\* the substitution of the bare host name for each placeholder
replaceHostByHostname(parsedCurl, host) ==
  [parsedCurl EXCEPT !.url = ReplaceAll(parsedCurl.url, HOST, host.hostname)]

replaceHostInParsedCurl(parsedCurl, host) ==
  LET urlToResolve == parsedCurl.url
      suffix == SplitSecond(urlToResolve, HOST)
      base == StripTrailingSlashes(host.normalized)
      path == StripLeadingSlashes(suffix)
      finalUrl == NewURLWithBase(urlToResolve, host.normalized)
  IN  IF Includes(urlToResolve, HOST)
        THEN [parsedCurl EXCEPT !.url = IF path # <<>> THEN base \o <<"/">> \o path ELSE base]
        ELSE IF finalUrl.ok THEN [parsedCurl EXCEPT !.url = Href(finalUrl)] ELSE parsedCurl

\* ------------------------------------------------------------ JSON.parse
\* JSON.parse over the symbols "1" (a number), "[", "]" and ",":
\* JsonEnd(b, i) is the index after the value that starts at i, 0 when the
\* text at i is no JSON value.
RECURSIVE JsonEnd(_, _)
RECURSIVE JsonElemsEnd(_, _)
JsonEnd(b, i) ==
  IF i > Len(b) THEN 0
  ELSE IF b[i] = "1" THEN i + 1
  ELSE IF b[i] = "[" THEN (IF i + 1 <= Len(b) /\ b[i + 1] = "]" THEN i + 2 ELSE JsonElemsEnd(b, i + 1))
  ELSE 0
JsonElemsEnd(b, i) ==
  LET e == JsonEnd(b, i)
  IN  IF e = 0 \/ e > Len(b) THEN 0
      ELSE IF b[e] = "]" THEN e + 1
      ELSE IF b[e] = "," THEN JsonElemsEnd(b, e + 1)
      ELSE 0

\* TRUE when JSON.parse(b) returns, FALSE when it throws SyntaxError
JsonParses(b) == JsonEnd(b, 1) = Len(b) + 1

\* ----------------------------------------------------- scheduler: bounds
\* most commands in one batch
MaxCmds == 3
\* most hosts in one batch
MaxHosts == 3
\* most (command, host) pairs in one batch
MaxRequests == 4

\* ------------------------------------------------------ scheduler: inputs
\* A command of the batch is written as the template parseCurl extracts from
\* its text.  body = <<>> stands for "no body" (undefined).
NoHeaders == [k \in {} |-> <<>>]
CmdGet == [url |-> <<HOST, "/", "a">>, method |-> "GET", headers |-> NoHeaders, body |-> <<>>]
CmdPostJson == [url |-> <<HOST, "/", "a">>, method |-> "POST",
                headers |-> [k \in {"Host"} |-> <<"a">>], body |-> <<"[", "1", "]">>]
CmdPostForm == [url |-> <<"/", "a">>, method |-> "POST", headers |-> NoHeaders, body |-> <<"a">>]
SampleCommands == {CmdGet, CmdPostJson, CmdPostForm}

\* the host texts of a batch: the first n of these, in this order
SampleHostTexts == <<<<"a">>, <<HTTPS, "b", "/">>, <<"c", "/", "a">>, <<HTTP, "d">>>>

\* --------------------------------------------------- scheduler: transport
StatusCodes == {200, 404, 500}
Timeout == 30000
PROXY_URL == "http://localhost:3001/proxy"
ErrorMessages == {"Network Error", "timeout of 30000ms exceeded"}

\* what the network can do with one call: answer with a status, or fail
Answers ==
  {[kind |-> "response", status |-> s, message |-> ""] : s \in StatusCodes}
  \cup {[kind |-> "error", status |-> 0, message |-> m] : m \in ErrorMessages}

\* config.validateStatus
validateStatus(status) == TRUE

\* axios.request(config): fulfilled with the response when one was received
\* and validateStatus accepts its status, rejected with an error otherwise
AxiosRequest(ans) ==
  IF ans.kind = "response" /\ validateStatus(ans.status)
    THEN [fulfilled |-> TRUE, status |-> ans.status, message |-> ""]
    ELSE [fulfilled |-> FALSE, status |-> 0,
          message |-> IF ans.kind = "response" THEN "Request failed with status code" ELSE ans.message]

StatusText(status) ==
  CASE status = 200 -> "OK" [] status = 404 -> "Not Found" [] OTHER -> "Internal Server Error"

\* encodeURIComponent, symbol by symbol
EncodeSymbol(c) ==
  CASE c = "/" -> "%2F" [] c = HTTP -> "http%3A%2F%2F" [] c = HTTPS -> "https%3A%2F%2F"
    [] c = HOST -> "%7Bhost%7D" [] c = " " -> "%20" [] OTHER -> c
encodeURIComponent(s) == [i \in 1..Len(s) |-> EncodeSymbol(s[i])]

\* ------------------------------------------------ scheduler: executeRequest
\* An ExecutionResult.  Optional fields are sequences of length 0 or 1.
\* responseTime (Date.now() - startTime) is counted in network round trips
\* awaited between the start of the request and its outcome.
SuccessResult(host, status, responseTime) ==
  [hostId |-> host.hostname, hostValue |-> host.normalized, success |-> TRUE,
   response |-> <<[status |-> status, statusText |-> StatusText(status),
                   headers |-> "response-headers", data |-> "response-data"]>>,
   error |-> <<>>, responseTime |-> <<responseTime>>]

FailureResult(host, message, responseTime) ==
  [hostId |-> host.hostname, hostValue |-> host.normalized, success |-> FALSE,
   response |-> <<>>, error |-> <<message>>, responseTime |-> <<responseTime>>]

\* A request that was not started yet.  directCalls and proxyCalls count the
\* network calls made for it, directFailed and proxyFailed record that the
\* call came back as an error, lastAnswer the kind of the last answer of the
\* network ("none", "response" or "error"); elapsed counts the awaited round
\* trips.
IdleRequest ==
  [st |-> "idle", result |-> <<>>, config |-> <<>>, directCalls |-> 0, proxyCalls |-> 0, elapsed |-> 0,
   directFailed |-> FALSE, proxyFailed |-> FALSE, lastAnswer |-> "none"]

\* the catch block of executeRequest: the promise is fulfilled with a failure
catchRethrow(req, host, message) == [req EXCEPT !.st = "rejected"]
catchError(req, host, message) ==
  [req EXCEPT !.st = "settled", !.result = <<FailureResult(host, message, req.elapsed)>>]

\* the return of executeRequest after a response
returnSuccess(req, host, status) ==
  [req EXCEPT !.st = "settled", !.result = <<SuccessResult(host, status, req.elapsed)>>]

\* executeRequest up to its first await: resolve the template, build the
\* axios config (JSON.parse of the body may throw) and send the direct request
startRequest(parsedCurl, host) ==
  LET finalCurl == replaceHostInParsedCurl(parsedCurl, host)
  IN  IF finalCurl.body # <<>> /\ ~JsonParses(finalCurl.body)
        THEN catchError(IdleRequest, host, "Unexpected token")
        ELSE [IdleRequest EXCEPT
                !.st = "direct",
                !.directCalls = 1,
                !.config = <<[method |-> finalCurl.method, url |-> finalCurl.url,
                              headers |-> finalCurl.headers, data |-> finalCurl.body,
                              timeout |-> Timeout]>>]

\* delete headers['Host']; delete headers['host']
DeleteHostHeader(headers) == [k \in (DOMAIN headers) \ {"Host", "host"} |-> headers[k]]

\* the retry through the local proxy on every failed direct request
onDirectErrorAlwaysProxy(req, host, message, dev, sharedHeaders) ==
  [req EXCEPT !.st = "proxy", !.proxyCalls = @ + 1,
              !.config = <<[req.config[1] EXCEPT
                              !.url = <<PROXY_URL, "?url=">> \o encodeURIComponent(req.config[1].url),
                              !.headers = DeleteHostHeader(sharedHeaders)]>>]

\* the catch of the direct request: in development mode the request is sent
\* again through the proxy, otherwise the error is rethrown to the outer catch
onDirectError(req, host, message, dev, sharedHeaders) ==
  IF dev
    THEN [req EXCEPT !.st = "proxy", !.proxyCalls = @ + 1,
                     !.config = <<[req.config[1] EXCEPT
                                     !.url = <<PROXY_URL, "?url=">> \o encodeURIComponent(req.config[1].url),
                                     !.headers = DeleteHostHeader(sharedHeaders)]>>]
    ELSE catchError(req, host, message)

\* a failed proxy request is not caught by the inner try: outer catch
onProxyError(req, host, message) == catchError(req, host, message)

\* ------------------------------------------------------------------ state
VARIABLES
  tmpl,          \* resolver: the parsed command handed to replaceHostInParsedCurl
  hostSpec,      \* resolver: the parsed host handed to it
  resolved,      \* resolver: <<>> before the call, <<its return value>> after
  curlCommands,  \* executeCurlBatch: the commands
  hosts,         \* executeCurlBatch: the parsed hosts
  isDev,         \* import.meta.env.DEV
  network,       \* the answers the network can give to one call
  stable,        \* TRUE when the transport answers a given request the same way every time
  oracle,        \* the answers a stable transport has given so far
  mode,          \* the mode of the running call
  pc,            \* "idle", "awaitAll", "awaitGroup", "resolved" or "rejected"
  requests,      \* one executeRequest promise per <<command, host>> position
  parsedCurls,   \* per command: <<>> or <<the template object shared by its requests>>
  allPromises,   \* all-at-once: the positions in push order
  curlIndices,   \* all-at-once: the command index pushed with each promise
  loopI,         \* per-curl: the loop variable i
  results,       \* per-curl: the entries pushed so far
  returned,      \* the value the call resolved with
  outOfOrder,    \* TRUE once a request has settled before an earlier one
  history,       \* the calls that resolved before the running one
  args,          \* pure services: the arguments of the call under study
  ret,           \* pure services: the values returned so far, in call order
  store,         \* useComparisonStore: the state held by the zustand store
  runs,          \* useComparisonExecution: the calls of execute and executeSingle, in call order
  now,           \* Date.now()
  crypto         \* the crypto global: whether randomUUID exists, and how many ids it has issued

resolverVars == <<tmpl, hostSpec, resolved>>
callVars == <<args, ret>>
storeVars == <<store, runs, now, crypto>>
batchVars == <<curlCommands, hosts, isDev, network, stable, oracle, mode, pc, requests, parsedCurls,
               allPromises, curlIndices, loopI, results, returned, outOfOrder, history>>
vars == <<tmpl, hostSpec, resolved, curlCommands, hosts, isDev, network, stable, oracle, mode, pc,
          requests, parsedCurls, allPromises, curlIndices, loopI, results, returned,
          outOfOrder, history, args, ret, store, runs, now, crypto>>

Slots == {<<i, j>> : i \in 1..Len(curlCommands), j \in 1..Len(hosts)}
Modes == {"all-at-once", "per-curl"}
NoOracle == [k \in {} |-> 0]

\* ------------------------------------------------- scheduler: Promise.all
\* Promise.all over the promises at the given positions: pending while one
\* is pending and none rejected, rejected as soon as one is rejected,
\* otherwise fulfilled with the values in the order of the positions.
PromiseAllState(reqs, promises) ==
  IF \E k \in 1..Len(promises) : reqs[promises[k]].st = "rejected" THEN "rejected"
  ELSE IF \A k \in 1..Len(promises) : reqs[promises[k]].st = "settled" THEN "fulfilled"
  ELSE "pending"

PromiseAllValues(reqs, promises) == [k \in 1..Len(promises) |-> reqs[promises[k]].result[1]]

\* ------------------------------------------- scheduler: executeCurlBatch
\* hosts.forEach(host => { allPromises.push(...); curlIndices.push(index) })
RECURSIVE PushHosts(_, _)
PushHosts(index, j) ==
  IF j > Len(hosts) THEN <<>>
  ELSE <<[promise |-> <<index + 1, j>>, curlIndex |-> index]>> \o PushHosts(index, j + 1)

\* curlCommands.forEach((curlCommand, index) => ...)
RECURSIVE PushCommands(_)
PushCommands(index) ==
  IF index >= Len(curlCommands) THEN <<>> ELSE PushHosts(index, 1) \o PushCommands(index + 1)

\* allResults.forEach: group the results by the command index pushed with them
RECURSIVE GroupPrepend(_, _, _, _)
GroupPrepend(allResults, indices, i, grouped) ==
  IF i > Len(allResults) THEN grouped
  ELSE LET curlIndex == indices[i]
           g == IF curlIndex \in DOMAIN grouped THEN grouped
                ELSE [x \in (DOMAIN grouped) \cup {curlIndex} |->
                        IF x = curlIndex THEN <<>> ELSE grouped[x]]
       IN  GroupPrepend(allResults, indices, i + 1,
                        [g EXCEPT ![curlIndex] = <<allResults[i]>> \o @])

RECURSIVE GroupDropFirst(_, _, _, _)
GroupDropFirst(allResults, indices, i, grouped) ==
  IF i > Len(allResults) THEN grouped
  ELSE LET curlIndex == indices[i]
       IN  IF curlIndex \in DOMAIN grouped
             THEN GroupDropFirst(allResults, indices, i + 1,
                                 [grouped EXCEPT ![curlIndex] = Append(@, allResults[i])])
             ELSE GroupDropFirst(allResults, indices, i + 1,
                                 [x \in (DOMAIN grouped) \cup {curlIndex} |->
                                    IF x = curlIndex THEN <<>> ELSE grouped[x]])

RECURSIVE GroupResults(_, _, _, _)
GroupResults(allResults, indices, i, grouped) ==
  IF i > Len(allResults) THEN grouped
  ELSE LET curlIndex == indices[i]
           g == IF curlIndex \in DOMAIN grouped THEN grouped
                ELSE [x \in (DOMAIN grouped) \cup {curlIndex} |->
                        IF x = curlIndex THEN <<>> ELSE grouped[x]]
       IN  GroupResults(allResults, indices, i + 1,
                        [g EXCEPT ![curlIndex] = Append(@, allResults[i])])

\* curlCommands.map((curlCommand, index) => ({curlIndex, curlCommand, results}))
AllAtOnceReturn(allResults, indices) ==
  LET grouped == GroupResults(allResults, indices, 1, NoOracle)
  IN  [n \in 1..Len(curlCommands) |->
         [curlIndex |-> n - 1, curlCommand |-> curlCommands[n],
          results |-> IF (n - 1) \in DOMAIN grouped THEN grouped[n - 1] ELSE <<>>]]

\* the requests executeForAllHosts starts for command i (0-based): all hosts
ForAllHostsFirstOnly(reqs, i) ==
  [s \in DOMAIN reqs |->
     IF s[1] = i + 1 /\ s[2] = 1 THEN startRequest(curlCommands[s[1]], hosts[s[2]]) ELSE reqs[s]]
\* executeForAllHosts that starts the requests of every command at once
ForAllHostsOfAll(reqs, i) ==
  [s \in DOMAIN reqs |->
     IF s[1] >= i + 1 THEN startRequest(curlCommands[s[1]], hosts[s[2]]) ELSE reqs[s]]
ForAllHosts(reqs, i) ==
  [s \in DOMAIN reqs |->
     IF s[1] = i + 1 THEN startRequest(curlCommands[s[1]], hosts[s[2]]) ELSE reqs[s]]

\* the promises executeForAllHosts hands to Promise.all, in host order
GroupPromises(i) == [j \in 1..Len(hosts) |-> <<i + 1, j>>]

\* results.push({curlIndex: i, curlCommand, results: curlResults})
PushEntryIndexOne(res, i, curlResults) ==
  Append(res, [curlIndex |-> i + 1, curlCommand |-> curlCommands[i + 1], results |-> curlResults])
PushEntry(res, i, curlResults) ==
  Append(res, [curlIndex |-> i, curlCommand |-> curlCommands[i + 1], results |-> curlResults])

\* executeCurlBatch(curlCommands, hosts, m) up to its first await
ExecuteCurlBatch(m) ==
  /\ pc = "idle"
  /\ history # <<>> => history[1].mode # m
  /\ mode' = m
  /\ IF m = "all-at-once"
       THEN /\ requests' = [s \in Slots |-> startRequest(curlCommands[s[1]], hosts[s[2]])]
            /\ parsedCurls' = [n \in 1..Len(curlCommands) |-> <<curlCommands[n]>>]
            /\ allPromises' = [k \in 1..Len(PushCommands(0)) |-> PushCommands(0)[k].promise]
            /\ curlIndices' = [k \in 1..Len(PushCommands(0)) |-> PushCommands(0)[k].curlIndex]
            /\ pc' = "awaitAll"
            /\ UNCHANGED <<loopI, results, returned>>
       ELSE /\ allPromises' = <<>>
            /\ curlIndices' = <<>>
            /\ loopI' = 0
            /\ results' = <<>>
            /\ IF Len(curlCommands) = 0
                 THEN /\ pc' = "resolved"
                      /\ returned' = <<>>
                      /\ UNCHANGED <<requests, parsedCurls>>
                 ELSE /\ pc' = "awaitGroup"
                      /\ requests' = ForAllHosts([s \in Slots |-> IdleRequest], 0)
                      /\ parsedCurls' = [n \in 1..Len(curlCommands) |->
                                           IF n = 1 THEN <<curlCommands[n]>> ELSE <<>>]
                      /\ UNCHANGED returned
  /\ UNCHANGED <<curlCommands, hosts, isDev, network, stable, oracle, outOfOrder, history, resolverVars, callVars, storeVars>>

\* the answer of the network to the call of request s through path via
Answered(s, via, ans) ==
  LET key == <<curlCommands[s[1]], hosts[s[2]], via>>
  IN  /\ ans \in network
      /\ stable /\ key \in DOMAIN oracle => ans = oracle[key]
      /\ oracle' = IF stable /\ key \notin DOMAIN oracle
                     THEN [x \in (DOMAIN oracle) \cup {key} |-> IF x = key THEN ans ELSE oracle[x]]
                     ELSE oracle

\* TRUE when an earlier position is still in flight
EarlierInFlight(s) ==
  \E t \in Slots : /\ t[1] < s[1] \/ (t[1] = s[1] /\ t[2] < s[2])
                   /\ requests[t].st \in {"direct", "proxy"}

\* the direct request of position s comes back
DirectAnswer(s, ans) ==
  /\ s \in Slots
  /\ requests[s].st = "direct"
  /\ Answered(s, "direct", ans)
  /\ LET host == hosts[s[2]]
         settle == AxiosRequest(ans)
         req == [requests[s] EXCEPT !.elapsed = @ + 1, !.directFailed = ~settle.fulfilled,
                                    !.lastAnswer = ans.kind]
         next == IF settle.fulfilled THEN returnSuccess(req, host, settle.status)
                 ELSE onDirectError(req, host, settle.message, isDev, parsedCurls[s[1]][1].headers)
     IN  /\ requests' = [requests EXCEPT ![s] = next]
         /\ parsedCurls' = IF next.st = "proxy"
                             THEN [parsedCurls EXCEPT ![s[1]] =
                                     <<[@[1] EXCEPT !.headers = DeleteHostHeader(@)]>>]
                             ELSE parsedCurls
         /\ outOfOrder' = (outOfOrder \/ (next.st = "settled" /\ EarlierInFlight(s)))
  /\ UNCHANGED <<curlCommands, hosts, isDev, network, stable, mode, pc, allPromises, curlIndices,
                 loopI, results, returned, history, resolverVars, callVars, storeVars>>

\* the proxy request of position s comes back
ProxyAnswer(s, ans) ==
  /\ s \in Slots
  /\ requests[s].st = "proxy"
  /\ Answered(s, "proxy", ans)
  /\ LET host == hosts[s[2]]
         settle == AxiosRequest(ans)
         req == [requests[s] EXCEPT !.elapsed = @ + 1, !.proxyFailed = ~settle.fulfilled,
                                    !.lastAnswer = ans.kind]
         next == IF settle.fulfilled THEN returnSuccess(req, host, settle.status)
                 ELSE onProxyError(req, host, settle.message)
     IN  /\ requests' = [requests EXCEPT ![s] = next]
         /\ outOfOrder' = (outOfOrder \/ (next.st = "settled" /\ EarlierInFlight(s)))
  /\ UNCHANGED <<curlCommands, hosts, isDev, network, stable, mode, pc, parsedCurls, allPromises,
                 curlIndices, loopI, results, returned, history, resolverVars, callVars, storeVars>>

\* all-at-once: await Promise.all(allPromises), then regroup and return
AwaitAll ==
  /\ pc = "awaitAll"
  /\ PromiseAllState(requests, allPromises) # "pending"
  /\ IF PromiseAllState(requests, allPromises) = "rejected"
       THEN pc' = "rejected" /\ UNCHANGED returned
       ELSE /\ pc' = "resolved"
            /\ returned' = AllAtOnceReturn(PromiseAllValues(requests, allPromises), curlIndices)
  /\ UNCHANGED <<curlCommands, hosts, isDev, network, stable, oracle, mode, requests, parsedCurls,
                 allPromises, curlIndices, loopI, results, outOfOrder, history, resolverVars, callVars, storeVars>>

\* per-curl: await executeForAllHosts of command i, push its entry, then
\* start the next command or return
AwaitGroup ==
  /\ pc = "awaitGroup"
  /\ PromiseAllState(requests, GroupPromises(loopI)) # "pending"
  /\ IF PromiseAllState(requests, GroupPromises(loopI)) = "rejected"
       THEN pc' = "rejected" /\ UNCHANGED <<loopI, results, returned, requests, parsedCurls>>
       ELSE LET pushed == PushEntry(results, loopI, PromiseAllValues(requests, GroupPromises(loopI)))
            IN  /\ results' = pushed
                /\ loopI' = loopI + 1
                /\ IF loopI + 1 < Len(curlCommands)
                     THEN /\ requests' = ForAllHosts(requests, loopI + 1)
                          /\ parsedCurls' = [parsedCurls EXCEPT ![loopI + 2] = <<curlCommands[loopI + 2]>>]
                          /\ UNCHANGED <<pc, returned>>
                     ELSE /\ pc' = "resolved"
                          /\ returned' = pushed
                          /\ UNCHANGED <<requests, parsedCurls>>
  /\ UNCHANGED <<curlCommands, hosts, isDev, network, stable, oracle, mode, allPromises, curlIndices,
                 outOfOrder, history, resolverVars, callVars, storeVars>>

\* the caller keeps the value of a resolved call and gets ready to call again
CallAgain ==
  /\ pc = "resolved"
  /\ history = <<>>
  /\ history' = <<[mode |-> mode, value |-> returned]>>
  /\ pc' = "idle"
  /\ requests' = [s \in Slots |-> IdleRequest]
  /\ parsedCurls' = [n \in 1..Len(curlCommands) |-> <<>>]
  /\ allPromises' = <<>>
  /\ curlIndices' = <<>>
  /\ loopI' = 0
  /\ results' = <<>>
  /\ returned' = <<>>
  /\ outOfOrder' = FALSE
  /\ UNCHANGED <<curlCommands, hosts, isDev, network, stable, oracle, mode, resolverVars, callVars, storeVars>>

\* ------------------------------------------------------- specifications
ResolverIdle ==
  /\ tmpl = CmdGet
  /\ hostSpec = parseHost(<<"a">>)
  /\ resolved = <<>>

\* comparisonStore.ts: the options every store starts with
defaultOptions ==
  [ignoreTimestamps |-> FALSE, ignoreIds |-> FALSE, ignoreWhitespace |-> FALSE,
   caseInsensitive |-> FALSE, ignoreArrayOrder |-> FALSE, customIgnorePaths |-> <<>>]

\* the state create() builds: no host, no command, no comparison
InitialStore ==
  [hosts |-> <<>>, curlCommands |-> <<>>, parallelMode |-> "all-at-once", isExecuting |-> FALSE,
   comparisons |-> <<>>, globalOptions |-> defaultOptions]

StoreIdle ==
  /\ store = InitialStore
  /\ runs = <<>>
  /\ now = 0
  /\ crypto = [randomUUID |-> TRUE, issued |-> 0]

CallsIdle ==
  /\ args = <<>>
  /\ ret = <<>>
  /\ StoreIdle

BatchInit(st, nets) ==
  /\ curlCommands \in SeqsUpTo(SampleCommands, MaxCmds)
  /\ \E n \in 0..MaxHosts : hosts = [j \in 1..n |-> parseHost(SampleHostTexts[j])]
  /\ Len(curlCommands) * Len(hosts) <= MaxRequests
  /\ isDev \in BOOLEAN
  /\ network \in nets
  /\ stable = st
  /\ oracle = NoOracle
  /\ mode = "all-at-once"
  /\ pc = "idle"
  /\ requests = [s \in Slots |-> IdleRequest]
  /\ parsedCurls = [n \in 1..Len(curlCommands) |-> <<>>]
  /\ allPromises = <<>>
  /\ curlIndices = <<>>
  /\ loopI = 0
  /\ results = <<>>
  /\ returned = <<>>
  /\ outOfOrder = FALSE
  /\ history = <<>>

Init == BatchInit(FALSE, {Answers}) /\ ResolverIdle /\ CallsIdle

Next ==
  \/ \E m \in Modes : ExecuteCurlBatch(m)
  \/ \E s \in Slots, ans \in Answers : DirectAnswer(s, ans)
  \/ \E s \in Slots, ans \in Answers : ProxyAnswer(s, ans)
  \/ AwaitAll
  \/ AwaitGroup

Spec == Init /\ [][Next]_vars

\* The batch under fair scheduling: every network call comes back (each
\* carries the 30 s timeout) and every continuation whose await has settled
\* runs.  The network answers with a status, a transport error or a timeout.
LiveNetwork ==
  {[kind |-> "response", status |-> 404, message |-> ""]} \cup {a \in Answers : a.kind = "error"}

InitLive == BatchInit(FALSE, {LiveNetwork}) /\ ResolverIdle /\ CallsIdle

SpecLive == InitLive /\ [][Next]_vars /\ WF_vars(Next)

\* The resolver alone: one call of replaceHostInParsedCurl on a parsed command
\* and a parsed host.
UrlTexts ==
  LET tails == SeqsUpTo({HOST, "/", "a"}, MaxUrlLen)
  IN  tails \cup {<<HTTPS>> \o t : t \in tails}

HostTexts ==
  {scheme \o <<"a">> \o path : scheme \in {<<>>, <<HTTP>>, <<HTTPS>>},
                               path \in SeqsUpTo({"/", "b"}, MaxPathLen)}

SampleRests ==
  {[method |-> "GET", headers |-> NoHeaders, body |-> <<>>],
   [method |-> "POST", headers |-> [k \in {"Content-Type"} |-> <<"a">>], body |-> <<"[", "1", "]">>],
   [method |-> "POST", headers |-> [k \in {"Origin"} |-> <<HOST>>], body |-> <<"a">>],
   [method |-> "PUT", headers |-> [k \in {"Origin", "Accept"} |-> IF k = "Origin" THEN <<HOST, "/">> ELSE <<"a">>],
    body |-> <<"[", HOST, "]">>]}

BatchIdle ==
  /\ curlCommands = <<>>
  /\ hosts = <<>>
  /\ isDev = FALSE
  /\ network = Answers
  /\ stable = FALSE
  /\ oracle = NoOracle
  /\ mode = "all-at-once"
  /\ pc = "idle"
  /\ requests = [s \in {} |-> IdleRequest]
  /\ parsedCurls = <<>>
  /\ allPromises = <<>>
  /\ curlIndices = <<>>
  /\ loopI = 0
  /\ results = <<>>
  /\ returned = <<>>
  /\ outOfOrder = FALSE
  /\ history = <<>>

InitResolve ==
  /\ \E u \in UrlTexts, r \in SampleRests :
       tmpl = [url |-> u, method |-> r.method, headers |-> r.headers, body |-> r.body]
  /\ \E t \in HostTexts : hostSpec = parseHost(t)
  /\ resolved = <<>>
  /\ BatchIdle
  /\ CallsIdle

\* replaceHostInParsedCurl(tmpl, hostSpec) is called and returns
Resolve ==
  /\ resolved = <<>>
  /\ resolved' = <<replaceHostInParsedCurl(tmpl, hostSpec)>>
  /\ UNCHANGED <<tmpl, hostSpec, batchVars, callVars, storeVars>>

NextResolve == Resolve

SpecResolve == InitResolve /\ [][NextResolve]_vars

\* The same batch called twice, once in each mode, against a transport that
\* answers a given (command, host, path) the same way every time.
StableNetworks ==
  {{r, e} : r \in {a \in Answers : a.kind = "response"}, e \in {a \in Answers : a.kind = "error"}}

InitModes == BatchInit(TRUE, StableNetworks) /\ ResolverIdle /\ CallsIdle

NextModes == Next \/ CallAgain

SpecModes == InitModes /\ [][NextModes]_vars

\* ------------------------------------------------------ scheduler: claims
Settled(s) == requests[s].st = "settled"
ResultOf(s) == requests[s].result[1]
Failed(s) == Settled(s) /\ ~ResultOf(s).success
Succeeded(s) == Settled(s) /\ ResultOf(s).success

\* C1: once executeCurlBatch has resolved, in either mode, its value holds
\* exactly one entry per command and every entry holds exactly one result
\* per host: as many results as hosts, and each host once.
C1_OneOutcomePerPair ==
  pc = "resolved" =>
    /\ Len(returned) = Len(curlCommands)
    /\ \A n \in 1..Len(returned) :
         /\ Len(returned[n].results) = Len(hosts)
         /\ \A j \in 1..Len(hosts) :
              Cardinality({k \in 1..Len(returned[n].results) :
                             returned[n].results[k].hostValue = hosts[j].normalized}) = 1

\* a resolved all-at-once batch of two commands on two hosts with a success
\* and a failure among its outcomes
C1_Witness ==
  /\ pc = "resolved" /\ mode = "all-at-once"
  /\ Len(curlCommands) = 2 /\ Len(hosts) = 2
  /\ \E s, t \in Slots : Succeeded(s) /\ Failed(t)

\* C2: against a transport whose answer to a (command, host) pair does not
\* depend on timing, the call in mode all-at-once and the call in mode
\* per-curl on the same commands and hosts resolve with the same value.
C2_ModesAgree ==
  (pc = "resolved" /\ history # <<>>) => returned = history[1].value

\* both modes were run on two commands and two hosts, with a success and a
\* failure among the outcomes
C2_Witness ==
  /\ pc = "resolved" /\ history # <<>> /\ history[1].mode # mode
  /\ Len(curlCommands) = 2 /\ Len(hosts) = 2
  /\ \E s, t \in Slots : Succeeded(s) /\ Failed(t) /\ requests[t].directCalls = 1

\* C3: in both modes entry i of the value belongs to command i and result j
\* in it is the outcome of the request of command i on host j, whatever the
\* order in which the requests completed.
C3_OrderPreserved ==
  pc = "resolved" =>
    \A n \in 1..Len(returned) :
      /\ n <= Len(curlCommands)
      /\ returned[n].curlIndex = n - 1
      /\ returned[n].curlCommand = curlCommands[n]
      /\ \A j \in 1..Len(returned[n].results) :
           /\ j <= Len(hosts)
           /\ returned[n].results[j].hostValue = hosts[j].normalized
           /\ returned[n].results[j].hostId = hosts[j].hostname
           /\ returned[n].results[j] = ResultOf(<<n, j>>)

\* a resolved batch of two commands on two hosts in which a request settled
\* while an earlier one was still in flight
C3_Witness ==
  /\ pc = "resolved" /\ outOfOrder
  /\ Len(curlCommands) = 2 /\ Len(hosts) = 2
  /\ \E s, t \in Slots : Succeeded(s) /\ Failed(t)

\* C4: in per-curl mode no request of a command is started before every
\* request of the commands before it has its outcome, and the requests of
\* one command are started together.
C4_PerCurlSequential ==
  (mode = "per-curl" /\ pc # "idle") =>
    \A s \in Slots :
      requests[s].st # "idle" =>
        /\ \A t \in Slots : t[1] < s[1] => Settled(t)
        /\ \A t \in Slots : t[1] = s[1] => requests[t].st # "idle"

\* per-curl: the second command is in flight on two hosts
C4_Witness ==
  /\ mode = "per-curl" /\ pc = "awaitGroup" /\ loopI = 1
  /\ Len(hosts) = 2
  /\ \A j \in 1..2 : requests[<<2, j>>].st = "direct"

\* no executeRequest promise is rejected, a failure is reported as an
\* ExecutionResult with success = false, an error and a responseTime, the
\* batch is never rejected, and when it resolves every pair has its outcome
FailuresCaptured ==
  /\ pc # "rejected"
  /\ \A s \in Slots :
       /\ requests[s].st # "rejected"
       /\ Failed(s) => /\ ResultOf(s).error # <<>>
                       /\ ResultOf(s).responseTime # <<>>
                       /\ ResultOf(s).response = <<>>
  /\ pc = "resolved" => \A s \in Slots : Settled(s)

\* C5: a failing request never aborts the batch: executeRequest always
\* resolves with a failure result instead of rejecting, every sibling pair
\* still gets its own outcome, and a batch that was called resolves, in both
\* modes.
C5_FailureIsolated == []FailuresCaptured /\ ((pc # "idle") ~> (pc = "resolved"))

\* a resolved batch in which one pair failed before sending, one failed on
\* the network and one succeeded
C5_Witness ==
  /\ pc = "resolved"
  /\ \E s, t, u \in Slots :
       /\ Failed(s) /\ requests[s].directCalls = 0
       /\ Failed(t) /\ requests[t].directCalls = 1
       /\ Succeeded(u)

\* C6: every request makes its network call, every received status is a
\* success outcome, a failure outcome comes only from a transport error or
\* a timeout of the network call, and a responseTime is always recorded.
C6_FailureOnlyFromTransport ==
  \A s \in Slots :
    Settled(s) =>
      /\ requests[s].directCalls = 1
      /\ ResultOf(s).responseTime # <<>>
      /\ requests[s].lastAnswer = "response" => ResultOf(s).success
      /\ ~ResultOf(s).success => requests[s].lastAnswer = "error"

\* C7: in development mode a failed direct request is sent once more, through
\* the proxy, and fails only if the proxy request fails too; outside
\* development mode it is not sent again; a direct request that succeeded is
\* never sent through the proxy; no request is sent more than once on
\* either path.
C7_ProxyRetryOnce ==
  \A s \in Slots :
    /\ requests[s].directCalls <= 1
    /\ requests[s].proxyCalls <= 1
    /\ requests[s].proxyCalls = 1 <=> (isDev /\ requests[s].directFailed)
    /\ requests[s].st = "proxy" => requests[s].config[1].url[1] = PROXY_URL
    /\ (Settled(s) /\ requests[s].directFailed) =>
         IF isDev THEN ResultOf(s).success = ~requests[s].proxyFailed
         ELSE ~ResultOf(s).success

\* development mode: one request failed on both paths, another was rescued
\* by the proxy, a third succeeded directly
C7_Witness ==
  /\ isDev
  /\ \E s, t, u \in Slots :
       /\ Failed(s) /\ requests[s].proxyCalls = 1 /\ requests[s].proxyFailed
       /\ Succeeded(t) /\ requests[t].proxyCalls = 1
       /\ Succeeded(u) /\ requests[u].proxyCalls = 0

\* ------------------------------------------------------- resolver: claims
\* the text that follows the first placeholder of the url
Remainder == SubSeq(tmpl.url, IndexOf(tmpl.url, HOST) + 1, Len(tmpl.url))
\* the url is the placeholder followed by a remainder without placeholder
PlaceholderFirst == tmpl.url # <<>> /\ tmpl.url[1] = HOST /\ ~Includes(Tail(tmpl.url), HOST)

\* C8 as stated: the resolved url of a command whose url holds the
\* placeholder holds no placeholder and starts with H.normalized.
C8_Original ==
  (resolved # <<>> /\ Includes(tmpl.url, HOST)) =>
    /\ ~Includes(resolved[1].url, HOST)
    /\ StartsWith(resolved[1].url, hostSpec.normalized)

\* C8 as amended: the resolved url of a command whose url holds the
\* placeholder (anywhere, any number of times) holds no placeholder and
\* starts with H.normalized without its trailing slashes.
C8_StartsWithBase ==
  (resolved # <<>> /\ Includes(tmpl.url, HOST)) =>
    /\ ~Includes(resolved[1].url, HOST)
    /\ StartsWith(resolved[1].url, StripTrailingSlashes(hostSpec.normalized))

\* a url with two placeholders, one not at the start, resolved against a
\* host whose normalized url ends with a slash
C8_Witness ==
  /\ resolved # <<>>
  /\ tmpl.url = <<"/", HOST, HOST>>
  /\ hostSpec.normalized = <<HTTP, "a", "/">>

\* C9 as stated: "{host}" followed by a non-empty remainder resolves to the
\* base without its trailing slashes, one "/", and the remainder without its
\* leading slashes; "{host}" alone resolves to the base.
C9_Original ==
  (resolved # <<>> /\ PlaceholderFirst) =>
    resolved[1].url =
      IF Remainder = <<>> THEN StripTrailingSlashes(hostSpec.normalized)
      ELSE StripTrailingSlashes(hostSpec.normalized) \o <<"/">> \o StripLeadingSlashes(Remainder)

\* C9 as amended: a remainder that holds more than slashes is joined to the
\* base by exactly one "/"; an empty remainder, or one made of slashes only,
\* gives the base without its trailing slashes and with no slash appended.
\* "{host}/a" against the host text "a" gives "http://a/a".
C9_SmartJoin ==
  (resolved # <<>> /\ PlaceholderFirst) =>
    /\ resolved[1].url =
         IF StripLeadingSlashes(Remainder) = <<>> THEN StripTrailingSlashes(hostSpec.normalized)
         ELSE StripTrailingSlashes(hostSpec.normalized) \o <<"/">> \o StripLeadingSlashes(Remainder)
    /\ (tmpl.url = <<HOST, "/", "a">> /\ hostSpec.original = <<"a">>) =>
         resolved[1].url = <<HTTP, "a", "/", "a">>

\* "{host}/a" against a base that ends in a slash
C9_Witness ==
  /\ resolved # <<>>
  /\ tmpl.url = <<HOST, "/", "a">>
  /\ hostSpec.normalized = <<HTTP, "a", "/">>

\* C10: resolving puts the host's base url in place of every placeholder of
\* the header values and of the body as well as of the url, and leaves the
\* method and the placeholder-free headers and body as they were.
C10_SubstitutesEverywhere ==
  resolved # <<>> =>
    /\ resolved[1].method = tmpl.method
    /\ DOMAIN resolved[1].headers = DOMAIN tmpl.headers
    /\ \A k \in DOMAIN tmpl.headers :
         resolved[1].headers[k] = ReplaceAll(tmpl.headers[k], HOST, hostSpec.normalized)
    /\ resolved[1].body = ReplaceAll(tmpl.body, HOST, hostSpec.normalized)
    /\ Includes(tmpl.url, HOST) => ~Includes(resolved[1].url, HOST)

\* ====================================================== pure services
\* Each service below is a pure function; its specification draws the
\* arguments in Init and has one action per call.

\* ------------------------------------------------------ parseHost alone
IPV4 == "1.1.1.1"

Paddings == {<<>>, <<" ">>}

Authorities == {<<"a">>, <<"a", ":", "1">>, <<IPV4>>, <<IPV4, ":", "1">>}

\* bare hostname, host:port, IPv4, full url, with or without a path, with
\* any number of trailing slashes, with blanks around
ProperHostTexts ==
  {lead \o scheme \o authority \o path \o trail :
     lead \in Paddings, trail \in Paddings, scheme \in {<<>>, <<HTTP>>, <<HTTPS>>},
     authority \in Authorities,
     path \in {<<>>} \cup {<<"/">> \o p : p \in SeqsUpTo({"/", "b"}, MaxPathLen - 1)}}

\* texts the URL constructor refuses: empty host, blank inside the host, bad port
MalformedHostTexts ==
  {<<>>, <<" ">>, <<"/">>, <<"a", " ", "a">>, <<"a", ":", "a">>, <<HTTPS, "a", ":", "a", "/">>,
   <<HTTP, HTTP, "a">>}

ParseHostInit ==
  /\ \E h \in ProperHostTexts \cup MalformedHostTexts : args = <<h>>
  /\ ret = <<>>
  /\ BatchIdle
  /\ ResolverIdle
  /\ StoreIdle

\* parseHost(args[1]) is called and returns
ParseHost ==
  /\ ret = <<>>
  /\ ret' = <<parseHost(args[1])>>
  /\ UNCHANGED <<args, batchVars, resolverVars, storeVars>>

ParseHostNext == ParseHost

SpecParseHost == ParseHostInit /\ [][ParseHostNext]_vars

\* the host text carries a scheme
CarriesScheme(h) == Trim(h) # <<>> /\ Trim(h)[1] \in Schemes
\* the number of slashes the trimmed text ends with
RECURSIVE TrailingSlashes(_)
TrailingSlashes(s) ==
  IF s # <<>> /\ s[Len(s)] = "/" THEN 1 + TrailingSlashes(SubSeq(s, 1, Len(s) - 1)) ELSE 0
\* scheme, then an authority: the text after the scheme does not start
\* with a slash or a blank
HasSchemeAndAuthority(n) ==
  /\ Len(n) >= 2
  /\ n[1] \in Schemes
  /\ n[2] \notin {"/", " "}

MaxRawLen == 4

\* s.split(sep) for a one-symbol separator: the pieces, in order
RECURSIVE Split(_, _)
Split(s, sep) ==
  IF ~Includes(s, sep) THEN <<s>>
  ELSE <<SubSeq(s, 1, IndexOf(s, sep) - 1)>> \o Split(SubSeq(s, IndexOf(s, sep) + 1, Len(s)), sep)

\* pieces.join(sep)
RECURSIVE Join(_, _)
Join(pieces, sep) ==
  IF pieces = <<>> THEN <<>>
  ELSE IF Len(pieces) = 1 THEN pieces[1]
  ELSE pieces[1] \o sep \o Join(Tail(pieces), sep)

\* s.replace(/\s+/g, ' ')
\* every run of whitespace becomes one blank: the first character of a run
\* turns into " ", the others go
CollapseWhiteSpace(s) ==
  LET marked == [i \in 1..Len(s) |->
                   IF s[i] \notin WhiteSpace THEN s[i]
                   ELSE IF i > 1 /\ s[i - 1] \in WhiteSpace THEN "" ELSE " "]
      Kept(c) == c # ""
  IN  SelectSeq(marked, Kept)

\* the reducer: a line that ends with a backslash loses that one backslash
\* and the whitespace before it
DropContinuation(line) ==
  IF EndsWith(line, <<BACKSLASH>>) THEN TrimEnd(SubSeq(line, 1, Len(line) - 1)) ELSE line

normalizeCurlCommand(raw) ==
  LET lines == Split(raw, LF)
      trimmedLines == [i \in 1..Len(lines) |-> TrimEnd(lines[i])]
      acc == [i \in 1..Len(lines) |-> DropContinuation(trimmedLines[i])]
  IN  Trim(CollapseWhiteSpace(Join(acc, <<" ">>)))

RawTexts == SeqsUpTo({"a", " ", BACKSLASH, LF, CR}, MaxRawLen)

NormalizeInit ==
  /\ \E x \in RawTexts : args = <<x>>
  /\ ret = <<>>
  /\ BatchIdle
  /\ ResolverIdle
  /\ StoreIdle

\* normalizeCurlCommand(raw) is called and returns
Normalize ==
  /\ ret = <<>>
  /\ ret' = <<normalizeCurlCommand(args[1])>>
  /\ UNCHANGED <<args, batchVars, resolverVars, storeVars>>

\* normalizeCurlCommand is called on what it returned
NormalizeAgain ==
  /\ Len(ret) = 1
  /\ ret' = ret \o <<normalizeCurlCommand(ret[1])>>
  /\ UNCHANGED <<args, batchVars, resolverVars, storeVars>>

NormalizeNext == Normalize \/ NormalizeAgain

SpecNormalize == NormalizeInit /\ [][NormalizeNext]_vars

\* C12: normalizing a normalized text changes nothing, for every raw text,
\* lines ending in one or several backslashes, CRLF line endings and runs
\* of whitespace included.
C12_Idempotent ==
  Len(ret) = 2 => ret[2] = ret[1]

\* ------------------------------------------------------------ curl parser
\* The curl parser reads its texts character by character: a text is the
\* sequence of its characters.
LowerCase ==
  <<"a", "b", "c", "d", "e", "f", "g", "h", "i", "j", "k", "l", "m", "n", "o", "p", "q", "r", "s", "t", "u", "v", "w", "x", "y", "z">>
UpperCase ==
  <<"A", "B", "C", "D", "E", "F", "G", "H", "I", "J", "K", "L", "M", "N", "O", "P", "Q", "R", "S", "T", "U", "V", "W", "X", "Y", "Z">>
Digits == {"0", "1", "2", "3", "4", "5", "6", "7", "8", "9"}
\* \w
WordChars == {LowerCase[i] : i \in 1..26} \cup {UpperCase[i] : i \in 1..26} \cup Digits \cup {"_"}
Quotes == {"'", "\""}

toUpperCaseChar(c) ==
  IF \E i \in 1..26 : LowerCase[i] = c THEN UpperCase[CHOOSE i \in 1..26 : LowerCase[i] = c] ELSE c
toLowerCaseChar(c) ==
  IF \E i \in 1..26 : UpperCase[i] = c THEN LowerCase[CHOOSE i \in 1..26 : UpperCase[i] = c] ELSE c
toUpperCase(s) == [i \in 1..Len(s) |-> toUpperCaseChar(s[i])]
toLowerCase(s) == [i \in 1..Len(s) |-> toLowerCaseChar(s[i])]

KNOWN_CURL_FLAGS ==
  {<<"-", "X">>, <<"-", "-", "r", "e", "q", "u", "e", "s", "t">>, <<"-", "H">>,
   <<"-", "-", "h", "e", "a", "d", "e", "r">>, <<"-", "d">>, <<"-", "-", "d", "a", "t", "a">>,
   <<"-", "-", "d", "a", "t", "a", "-", "r", "a", "w">>,
   <<"-", "-", "d", "a", "t", "a", "-", "b", "i", "n", "a", "r", "y">>,
   <<"-", "-", "d", "a", "t", "a", "-", "u", "r", "l", "e", "n", "c", "o", "d", "e">>,
   <<"-", "u">>, <<"-", "-", "u", "s", "e", "r">>, <<"-", "A">>,
   <<"-", "-", "u", "s", "e", "r", "-", "a", "g", "e", "n", "t">>, <<"-", "e">>,
   <<"-", "-", "r", "e", "f", "e", "r", "e", "r">>, <<"-", "L">>,
   <<"-", "-", "l", "o", "c", "a", "t", "i", "o", "n">>, <<"-", "k">>,
   <<"-", "-", "i", "n", "s", "e", "c", "u", "r", "e">>, <<"-", "m">>,
   <<"-", "-", "m", "a", "x", "-", "t", "i", "m", "e">>,
   <<"-", "-", "c", "o", "n", "n", "e", "c", "t", "-", "t", "i", "m", "e", "o", "u", "t">>,
   <<"-", "o">>, <<"-", "-", "o", "u", "t", "p", "u", "t">>, <<"-", "s">>,
   <<"-", "-", "s", "i", "l", "e", "n", "t">>, <<"-", "v">>,
   <<"-", "-", "v", "e", "r", "b", "o", "s", "e">>, <<"-", "b">>,
   <<"-", "-", "c", "o", "o", "k", "i", "e">>, <<"-", "c">>,
   <<"-", "-", "c", "o", "o", "k", "i", "e", "-", "j", "a", "r">>,
   <<"-", "-", "c", "o", "m", "p", "r", "e", "s", "s", "e", "d">>,
   <<"-", "-", "h", "t", "t", "p", "1", ".", "0">>,
   <<"-", "-", "h", "t", "t", "p", "1", ".", "1">>, <<"-", "-", "h", "t", "t", "p", "2">>,
   <<"-", "G">>, <<"-", "-", "g", "e", "t">>, <<"-", "-", "u", "r", "l">>, <<"-", "F">>,
   <<"-", "-", "f", "o", "r", "m">>, <<"-", "-", "j", "s", "o", "n">>, <<"-", "I">>,
   <<"-", "-", "h", "e", "a", "d">>, <<"-", "T">>,
   <<"-", "-", "u", "p", "l", "o", "a", "d", "-", "f", "i", "l", "e">>}

FLAGS_WITH_ARGS ==
  {<<"-", "X">>, <<"-", "-", "r", "e", "q", "u", "e", "s", "t">>, <<"-", "H">>,
   <<"-", "-", "h", "e", "a", "d", "e", "r">>, <<"-", "d">>, <<"-", "-", "d", "a", "t", "a">>,
   <<"-", "-", "d", "a", "t", "a", "-", "r", "a", "w">>,
   <<"-", "-", "d", "a", "t", "a", "-", "b", "i", "n", "a", "r", "y">>,
   <<"-", "-", "d", "a", "t", "a", "-", "u", "r", "l", "e", "n", "c", "o", "d", "e">>,
   <<"-", "u">>, <<"-", "-", "u", "s", "e", "r">>, <<"-", "A">>,
   <<"-", "-", "u", "s", "e", "r", "-", "a", "g", "e", "n", "t">>, <<"-", "e">>,
   <<"-", "-", "r", "e", "f", "e", "r", "e", "r">>, <<"-", "m">>,
   <<"-", "-", "m", "a", "x", "-", "t", "i", "m", "e">>,
   <<"-", "-", "c", "o", "n", "n", "e", "c", "t", "-", "t", "i", "m", "e", "o", "u", "t">>,
   <<"-", "o">>, <<"-", "-", "o", "u", "t", "p", "u", "t">>, <<"-", "b">>,
   <<"-", "-", "c", "o", "o", "k", "i", "e">>, <<"-", "c">>,
   <<"-", "-", "c", "o", "o", "k", "i", "e", "-", "j", "a", "r">>, <<"-", "-", "u", "r", "l">>,
   <<"-", "F">>, <<"-", "-", "f", "o", "r", "m">>, <<"-", "-", "j", "s", "o", "n">>, <<"-", "T">>,
   <<"-", "-", "u", "p", "l", "o", "a", "d", "-", "f", "i", "l", "e">>}

STANDALONE_FLAGS ==
  {<<"-", "L">>, <<"-", "-", "l", "o", "c", "a", "t", "i", "o", "n">>, <<"-", "k">>,
   <<"-", "-", "i", "n", "s", "e", "c", "u", "r", "e">>, <<"-", "s">>,
   <<"-", "-", "s", "i", "l", "e", "n", "t">>, <<"-", "v">>,
   <<"-", "-", "v", "e", "r", "b", "o", "s", "e">>,
   <<"-", "-", "c", "o", "m", "p", "r", "e", "s", "s", "e", "d">>,
   <<"-", "-", "h", "t", "t", "p", "1", ".", "0">>,
   <<"-", "-", "h", "t", "t", "p", "1", ".", "1">>, <<"-", "-", "h", "t", "t", "p", "2">>,
   <<"-", "G">>, <<"-", "-", "g", "e", "t">>, <<"-", "I">>, <<"-", "-", "h", "e", "a", "d">>}

\* p occurs in s at position i
OccursAt(s, i, p) == i >= 1 /\ i + Len(p) - 1 <= Len(s) /\ SubSeq(s, i, i + Len(p) - 1) = p

\* the first position at or after i whose character is outside (inside) S,
\* Len(s) + 1 when there is none: the end of a greedy run that starts at i
RunOf(s, i, S) ==
  IF i > Len(s) THEN i
  ELSE LET P == {j \in i..(Len(s) + 1) : j = Len(s) + 1 \/ s[j] \notin S}
       IN  CHOOSE j \in P : \A k \in P : j <= k
RunOutside(s, i, S) ==
  IF i > Len(s) THEN i
  ELSE LET P == {j \in i..(Len(s) + 1) : j = Len(s) + 1 \/ s[j] \in S}
       IN  CHOOSE j \in P : \A k \in P : j <= k

\* s without the characters at positions from..(to - 1)
Cut(s, from, to) == SubSeq(s, 1, from - 1) \o SubSeq(s, to, Len(s))

\* the least member of a non-empty set of positions
Least(P) == CHOOSE i \in P : \A j \in P : i <= j

\* String.prototype.indexOf(p), 1-based, 0 when absent
IndexOfText(s, p) ==
  LET P == {i \in 1..Len(s) : OccursAt(s, i, p)}
  IN  IF P = {} THEN 0 ELSE Least(P)

\* s.replace(p, '') for a string p: the first occurrence goes
RemoveFirst(s, p) ==
  IF p = <<>> \/ IndexOfText(s, p) = 0 THEN s
  ELSE Cut(s, IndexOfText(s, p), IndexOfText(s, p) + Len(p))

\* s.split(/\s+/) without its empty pieces
RECURSIVE Tokens(_)
Tokens(s) ==
  LET t == TrimStart(s)
      e == RunOutside(t, 1, WhiteSpace)
  IN  IF t = <<>> THEN <<>> ELSE <<SubSeq(t, 1, e - 1)>> \o Tokens(SubSeq(t, e, Len(t)))

\* a regular expression tried at one position: whether it matches there,
\* where the match ends (exclusive) and what its group captured
NoMatch == [found |-> FALSE, from |-> 0, to |-> 0, group |-> <<>>]

\* RegExp.prototype.exec: the match at the leftmost position from `start` on
FirstMatch(c, start, MatchAt(_, _)) ==
  LET P == {i \in start..Len(c) : MatchAt(c, i).found}
  IN  IF P = {} THEN NoMatch ELSE MatchAt(c, Least(P))

\* the matched text, match[0]
Matched(c, m) == SubSeq(c, m.from, m.to - 1)

\* /-X\s+(\w+)/i
MethodMatchAt(c, i) ==
  LET w == RunOf(c, i + 2, WhiteSpace)
      e == RunOf(c, w, WordChars)
  IN  IF (OccursAt(c, i, <<"-", "X">>) \/ OccursAt(c, i, <<"-", "x">>)) /\ w > i + 2 /\ e > w
        THEN [found |-> TRUE, from |-> i, to |-> e, group |-> SubSeq(c, w, e - 1)]
        ELSE NoMatch

\* /-H\s+['"]([^'"]+)['"]/
HeaderMatchAt(c, i) ==
  LET w == RunOf(c, i + 2, WhiteSpace)
      e == RunOutside(c, w + 1, Quotes)
  IN  IF /\ OccursAt(c, i, <<"-", "H">>) /\ w > i + 2
         /\ w <= Len(c) /\ c[w] \in Quotes
         /\ e > w + 1 /\ e <= Len(c)
        THEN [found |-> TRUE, from |-> i, to |-> e + 1, group |-> SubSeq(c, w + 1, e - 1)]
        ELSE NoMatch

\* command.matchAll(headerRegex): the matches from left to right
RECURSIVE HeaderMatches(_, _)
HeaderMatches(c, start) ==
  LET m == FirstMatch(c, start, HeaderMatchAt)
  IN  IF m.found THEN <<m>> \o HeaderMatches(c, m.to) ELSE <<>>

\* parsed.headers[key] = value: the entries of an object in insertion order
SetHeader(headers, key, value) ==
  IF \E k \in 1..Len(headers) : headers[k][1] = key
    THEN [k \in 1..Len(headers) |-> IF headers[k][1] = key THEN <<key, value>> ELSE headers[k]]
    ELSE Append(headers, <<key, value>>)

\* the forEach callback over the header matches: [headers, command] after
\* the first n matches
RECURSIVE AfterHeaders(_, _, _, _)
AfterHeaders(c, matches, n, command) ==
  IF n = 0 THEN [headers |-> <<>>, command |-> command]
  ELSE LET before == AfterHeaders(c, matches, n - 1, command)
           header == matches[n].group
           colonIndex == IndexOf(header, ":")
           key == Trim(SubSeq(header, 1, colonIndex - 1))
           value == Trim(SubSeq(header, colonIndex + 1, Len(header)))
       IN  [headers |-> IF colonIndex > 1 THEN SetHeader(before.headers, key, value)
                        ELSE before.headers,
            command |-> RemoveFirst(before.command, Matched(c, matches[n]))]

\* /(?:-d|--data)\s+['"]([^'"]+)['"]|(?:-d|--data)\s+(\S+)/
\* the quoted alternative comes first; its group stops at the first quote of
\* either kind
BodyMatchAt(c, i) ==
  LET flagLen == IF OccursAt(c, i, <<"-", "d">>) THEN 2
                 ELSE IF OccursAt(c, i, <<"-", "-", "d", "a", "t", "a">>) THEN 6 ELSE 0
      w == RunOf(c, i + flagLen, WhiteSpace)
      q == RunOutside(c, w + 1, Quotes)
      e == RunOutside(c, w, WhiteSpace)
  IN  IF flagLen = 0 \/ w = i + flagLen \/ w > Len(c) THEN NoMatch
      ELSE IF c[w] \in Quotes /\ q > w + 1 /\ q <= Len(c)
        THEN [found |-> TRUE, from |-> i, to |-> q + 1, group |-> SubSeq(c, w + 1, q - 1)]
        ELSE [found |-> TRUE, from |-> i, to |-> e, group |-> SubSeq(c, w, e - 1)]

\* /(https?:\/\/\S+|\/\S*)/
UrlMatchAt(c, i) ==
  LET http == <<"h", "t", "t", "p", ":", "/", "/">>
      https == <<"h", "t", "t", "p", "s", ":", "/", "/">>
      after == IF OccursAt(c, i, http) THEN i + 7 ELSE IF OccursAt(c, i, https) THEN i + 8 ELSE 0
      e == RunOutside(c, after, WhiteSpace)
      s == RunOutside(c, i + 1, WhiteSpace)
  IN  IF after > 0 /\ e > after
        THEN [found |-> TRUE, from |-> i, to |-> e, group |-> SubSeq(c, i, e - 1)]
      ELSE IF OccursAt(c, i, <<"/">>)
        THEN [found |-> TRUE, from |-> i, to |-> s, group |-> SubSeq(c, i, s - 1)]
      ELSE NoMatch

\* /^(['"])(.*?)\1/: a quote at the start and the first same quote after it
QuotedUrlMatch(c) ==
  LET P == {j \in 2..Len(c) : c[j] = c[1]}
  IN  IF c # <<>> /\ c[1] \in Quotes /\ P # {}
        THEN [found |-> TRUE, from |-> 1, to |-> Least(P) + 1, group |-> SubSeq(c, 2, Least(P) - 1)]
        ELSE NoMatch

\* the tokens of a sequence that are not in a set
RECURSIVE Without(_, _)
Without(tokens, S) ==
  IF tokens = <<>> THEN <<>>
  ELSE (IF tokens[1] \in S THEN <<>> ELSE <<tokens[1]>>) \o Without(Tail(tokens), S)

\* ----------------------------------------------------------------- parseCurl
\* body <<>> stands for undefined: parseCurl never sets an empty body.
\* The steps of parseCurl follow one another, each handing the command text
\* it has cut down to the next one.

\* the url: a quoted one at the start, else the first url-like text, else
\* the first token when it is no flag
UrlOfCommand(quotedUrlMatch, urlMatch, tokens) ==
  IF quotedUrlMatch.found THEN Trim(quotedUrlMatch.group)
  ELSE IF urlMatch.found THEN Trim(urlMatch.group)
  ELSE IF tokens # <<>> /\ tokens[1] # <<>> /\ tokens[1][1] # "-" THEN tokens[1]
  ELSE <<>>

ParseUrl(trimmed, method, headers, body, cleanCommand) ==
  [url |-> UrlOfCommand(QuotedUrlMatch(cleanCommand), FirstMatch(cleanCommand, 1, UrlMatchAt),
                        Tokens(cleanCommand)),
   method |-> method, headers |-> headers, body |-> body, originalCurl |-> trimmed]

\* the command without its standalone flags
CleanCommand(command) == Join(Without(Tokens(command), STANDALONE_FLAGS), <<" ">>)

TakeBody(trimmed, method, headers, command, bodyMatch) ==
  IF bodyMatch.found
    THEN ParseUrl(trimmed, method, headers, bodyMatch.group,
                  CleanCommand(RemoveFirst(command, Matched(command, bodyMatch))))
    ELSE ParseUrl(trimmed, method, headers, <<>>, CleanCommand(command))

ParseBody(trimmed, method, hs) ==
  TakeBody(trimmed, method, hs.headers, hs.command, FirstMatch(hs.command, 1, BodyMatchAt))

TakeHeaders(trimmed, method, command, headerMatches) ==
  ParseBody(trimmed, method, AfterHeaders(command, headerMatches, Len(headerMatches), command))

ParseHeaders(trimmed, method, command) ==
  TakeHeaders(trimmed, method, command, HeaderMatches(command, 1))

TakeMethod(trimmed, command, methodMatch) ==
  IF methodMatch.found
    THEN ParseHeaders(trimmed, toUpperCase(methodMatch.group),
                      RemoveFirst(command, Matched(command, methodMatch)))
    ELSE ParseHeaders(trimmed, <<"G", "E", "T">>, command)

ParseMethod(trimmed, command) ==
  TakeMethod(trimmed, command, FirstMatch(command, 1, MethodMatchAt))

\* trimmed.replace(/^curl\s+/, '')
RemoveCurlPrefix(trimmed) ==
  IF OccursAt(trimmed, 1, <<"c", "u", "r", "l">>) /\ RunOf(trimmed, 5, WhiteSpace) > 5
    THEN SubSeq(trimmed, RunOf(trimmed, 5, WhiteSpace), Len(trimmed))
    ELSE trimmed

ParseNormalized(trimmed) == ParseMethod(trimmed, RemoveCurlPrefix(trimmed))

parseCurl(curlCommand) == ParseNormalized(normalizeCurlCommand(curlCommand))

\* ------------------------------------------------ formatParsedCurlToCommand
\* text.replace(/'/g, String.raw`'\''`)
EscapeSingleQuotes(text) == ReplaceAll(text, "'", <<"'", BACKSLASH, "'", "'">>)

\* the -H options for the entries of parsed.headers, in insertion order
RECURSIVE FormatHeaders(_)
FormatHeaders(headers) ==
  IF headers = <<>> THEN <<>>
  ELSE <<" ", "-", "H", " ", "'">> \o headers[1][1] \o <<":", " ">> \o EscapeSingleQuotes(headers[1][2])
         \o <<"'">> \o FormatHeaders(Tail(headers))

formatParsedCurlToCommand(parsed) ==
  LET safeUrl == EscapeSingleQuotes(parsed.url)
      command0 == <<"c", "u", "r", "l", " ", "'">> \o safeUrl \o <<"'">>
      command1 == IF parsed.method # <<>> /\ toUpperCase(parsed.method) # <<"G", "E", "T">>
                    THEN command0 \o <<" ", "-", "X", " ">> \o toUpperCase(parsed.method)
                    ELSE command0
      command2 == command1 \o FormatHeaders(parsed.headers)
  IN  IF parsed.body # <<>>
        THEN command2 \o <<" ", "-", "d", " ", "'">> \o EscapeSingleQuotes(parsed.body) \o <<"'">>
        ELSE command2

\* --------------------------------------------------- the curl parser alone
MaxHeaders == 2

\* The commands: curl, an optional -X M, quoted -H 'K: V' options, an
\* optional -d body and a url.  quote is the character that encloses a
\* value, <<>> for a bare one.
SampleMethods == {<<>>, <<"P", "O", "S", "T">>, <<"p", "u", "t">>}
SampleHeaderFlags ==
  {[quote |-> <<"'">>, key |-> <<"K">>, value |-> <<"v">>],
   [quote |-> <<"\"">>, key |-> <<"A">>, value |-> <<"b">>]}
NoBodyFlag == [present |-> FALSE, quote |-> <<>>, text |-> <<>>]
SampleBodyFlags ==
  {NoBodyFlag,
   [present |-> TRUE, quote |-> <<"'">>, text |-> <<"b">>],
   [present |-> TRUE, quote |-> <<"\"">>, text |-> <<"b">>],
   [present |-> TRUE, quote |-> <<"'">>, text |-> <<"{", "\"", "a", "\"", ":", "1", "}">>],
   [present |-> TRUE, quote |-> <<>>, text |-> <<"a", "'", "b">>]}
SampleUrlTokens ==
  {[quote |-> <<>>, text |-> <<"{", "h", "o", "s", "t", "}", "/", "x">>],
   [quote |-> <<"'">>, text |-> <<"{", "h", "o", "s", "t", "}", "/", "x">>],
   [quote |-> <<>>, text |-> <<"h", "t", "t", "p", ":", "/", "/", "a", "/", "x">>],
   [quote |-> <<>>, text |-> <<"/", "a", "'", "b">>]}

CurlShapes ==
  [method : SampleMethods, headers : SeqsUpTo(SampleHeaderFlags, MaxHeaders),
   body : SampleBodyFlags, url : SampleUrlTokens]

RECURSIVE RenderHeaders(_)
RenderHeaders(flags) ==
  IF flags = <<>> THEN <<>>
  ELSE <<" ", "-", "H", " ">> \o flags[1].quote \o flags[1].key \o <<":", " ">> \o flags[1].value
         \o flags[1].quote \o RenderHeaders(Tail(flags))

\* the command text of a shape
Render(shape) ==
  <<"c", "u", "r", "l">>
    \o (IF shape.method = <<>> THEN <<>> ELSE <<" ", "-", "X", " ">> \o shape.method)
    \o RenderHeaders(shape.headers)
    \o (IF shape.body.present
          THEN <<" ", "-", "d", " ">> \o shape.body.quote \o shape.body.text \o shape.body.quote
          ELSE <<>>)
    \o <<" ">> \o shape.url.quote \o shape.url.text \o shape.url.quote

\* args = <<the command text, the shape it was written from>>
ParseCurlInit ==
  /\ \E shape \in CurlShapes : args = <<Render(shape), shape>>
  /\ ret = <<>>
  /\ BatchIdle
  /\ ResolverIdle
  /\ StoreIdle

\* parseCurl(x)
ParseCurl ==
  /\ ret = <<>>
  /\ ret' = <<parseCurl(args[1])>>
  /\ UNCHANGED <<args, batchVars, resolverVars, storeVars>>

\* formatParsedCurlToCommand(parseCurl(x))
FormatParsedCurl ==
  /\ Len(ret) = 1
  /\ ret' = ret \o <<formatParsedCurlToCommand(ret[1])>>
  /\ UNCHANGED <<args, batchVars, resolverVars, storeVars>>

\* parseCurl(formatParsedCurlToCommand(parseCurl(x)))
ParseCurlAgain ==
  /\ Len(ret) = 2
  /\ ret' = ret \o <<parseCurl(ret[2])>>
  /\ UNCHANGED <<args, batchVars, resolverVars, storeVars>>

ParseCurlNext == ParseCurl \/ FormatParsedCurl \/ ParseCurlAgain

SpecParseCurl == ParseCurlInit /\ [][ParseCurlNext]_vars

\* the shapes C13 speaks of: the body, when there is one, is quoted
QuotedBody(shape) == shape.body.present => shape.body.quote # <<>>
\* the headers as a mapping: the entries, whatever their order
HeaderEntries(headers) == {headers[k] : k \in 1..Len(headers)}

\* C13: for curl -X M, quoted -H 'K: V' options, one quoted -d body and a
\* url, parseCurl returns the upper-case M (GET without -X), an entry K -> V
\* for every -H option, the text between the body's quotes as the body,
\* also when it holds the other kind of quote, and the url token as the url.
C13_ParsesCommand ==
  (Len(ret) >= 1 /\ QuotedBody(args[2])) =>
    /\ ret[1].method = IF args[2].method = <<>> THEN <<"G", "E", "T">>
                       ELSE toUpperCase(args[2].method)
    /\ \A k \in 1..Len(args[2].headers) :
         <<args[2].headers[k].key, args[2].headers[k].value>> \in HeaderEntries(ret[1].headers)
    /\ ret[1].body = args[2].body.text
    /\ ret[1].url = args[2].url.text

\* C14: parsing the formatted parse of any command text gives the same
\* method, url, headers and body, quotes in the url, the header values or
\* the body included.
C14_RoundTrip ==
  Len(ret) = 3 =>
    /\ ret[3].method = ret[1].method
    /\ ret[3].url = ret[1].url
    /\ HeaderEntries(ret[3].headers) = HeaderEntries(ret[1].headers)
    /\ ret[3].body = ret[1].body

\* --------------------------------------------------------------- validateCurl
\* /"(?:[^"\\]|\\.)*"|'(?:[^'\\]|\\.)*'/ from the opening quote at position
\* i: j walks over the characters and the backslash pairs; the result is the
\* position of the closing quote, 0 when the text ends first
RECURSIVE ClosingQuote(_, _, _)
ClosingQuote(c, q, j) ==
  IF j > Len(c) THEN 0
  ELSE IF c[j] = q THEN j
  ELSE IF c[j] = BACKSLASH THEN (IF j + 1 <= Len(c) THEN ClosingQuote(c, q, j + 2) ELSE 0)
  ELSE ClosingQuote(c, q, j + 1)

QuotedStringMatchAt(c, i) ==
  IF c[i] \in Quotes /\ ClosingQuote(c, c[i], i + 1) > 0
    THEN [found |-> TRUE, from |-> i, to |-> ClosingQuote(c, c[i], i + 1) + 1,
          group |-> SubSeq(c, i + 1, ClosingQuote(c, c[i], i + 1) - 1)]
    ELSE NoMatch

\* /https?:\/\/\S+/
BareUrlMatchAt(c, i) ==
  LET after == IF OccursAt(c, i, <<"h", "t", "t", "p", ":", "/", "/">>) THEN i + 7
               ELSE IF OccursAt(c, i, <<"h", "t", "t", "p", "s", ":", "/", "/">>) THEN i + 8 ELSE 0
      e == RunOutside(c, after, WhiteSpace)
  IN  IF after > 0 /\ e > after
        THEN [found |-> TRUE, from |-> i, to |-> e, group |-> SubSeq(c, i, e - 1)]
        ELSE NoMatch

\* stripped.replace(/"..."|'...'/g, ''): every quoted string goes, left to right
RECURSIVE RemoveQuotedStrings(_, _)
RemoveQuotedStrings(c, start) ==
  LET m == FirstMatch(c, start, QuotedStringMatchAt)
  IN  IF m.found THEN SubSeq(c, start, m.from - 1) \o RemoveQuotedStrings(c, m.to)
      ELSE SubSeq(c, start, Len(c))

\* stripped.replace(/https?:\/\/\S+/g, ''): every bare url goes
RECURSIVE RemoveBareUrls(_, _)
RemoveBareUrls(c, start) ==
  LET m == FirstMatch(c, start, BareUrlMatchAt)
  IN  IF m.found THEN SubSeq(c, start, m.from - 1) \o RemoveBareUrls(c, m.to)
      ELSE SubSeq(c, start, Len(c))

\* /^curl(\s|$)/i
StartsWithCurl(n) ==
  /\ Len(n) >= 4
  /\ toLowerCase(SubSeq(n, 1, 4)) = <<"c", "u", "r", "l">>
  /\ Len(n) = 4 \/ n[5] \in WhiteSpace

\* /^(\/|https?:\/\/|\{host}|localhost)/
IsValidUrl(url) ==
  \/ OccursAt(url, 1, <<"/">>)
  \/ OccursAt(url, 1, <<"h", "t", "t", "p", ":", "/", "/">>)
  \/ OccursAt(url, 1, <<"h", "t", "t", "p", "s", ":", "/", "/">>)
  \/ OccursAt(url, 1, <<"{", "h", "o", "s", "t", "}">>)
  \/ OccursAt(url, 1, <<"l", "o", "c", "a", "l", "h", "o", "s", "t">>)

\* the error texts: the fixed words are one symbol each, the token or url
\* they quote is spelled out
Invalid(error) == [valid |-> FALSE, error |-> error]
Valid == [valid |-> TRUE, error |-> <<>>]
UnrecognizedOption(token) == Invalid(<<"Unrecognized curl option: '">> \o token \o <<"'">>)
MissingArgument(token) == Invalid(<<"Flag '">> \o token \o <<"' is missing an argument">>)

\* the for loop over the tokens from index i on: the error it returns, Valid
\* when it runs to the end
RECURSIVE CheckFlags(_, _)
CheckFlags(tokens, i) ==
  IF i > Len(tokens) THEN Valid
  ELSE IF tokens[i][1] = "-" /\ tokens[i] \notin KNOWN_CURL_FLAGS THEN UnrecognizedOption(tokens[i])
  ELSE IF /\ tokens[i][1] = "-" /\ tokens[i] \in FLAGS_WITH_ARGS
          /\ (i + 1 > Len(tokens) \/ tokens[i + 1][1] = "-")
    THEN MissingArgument(tokens[i])
  ELSE CheckFlags(tokens, i + 1)

\* the loop that does not look the flags up
RECURSIVE CheckFlagsKnownOnly(_, _)
CheckFlagsKnownOnly(tokens, i) ==
  IF i > Len(tokens) THEN Valid
  ELSE IF /\ tokens[i][1] = "-" /\ tokens[i] \in FLAGS_WITH_ARGS
          /\ (i + 1 > Len(tokens) \/ tokens[i + 1][1] = "-")
    THEN MissingArgument(tokens[i])
  ELSE CheckFlagsKnownOnly(tokens, i + 1)

\* the checks of validateCurl after the flag loop: the url
CheckUrl(url) ==
  IF url = <<>> THEN Invalid(<<"cURL command must contain a URL">>)
  ELSE IF ~IsValidUrl(url) THEN Invalid(<<"Invalid URL format: '">> \o url \o <<"'">>)
  ELSE Valid

\* the tokens the flag loop looks at: the command without 'curl', without
\* quoted strings and without bare urls
FlagTokens(normalized) ==
  Tokens(RemoveBareUrls(
           RemoveQuotedStrings(
             SubSeq(normalized, RunOf(normalized, 5, WhiteSpace), Len(normalized)), 1), 1))

CheckNormalized(normalized, flagError) ==
  IF ~StartsWithCurl(normalized) THEN Invalid(<<"cURL command must start with 'curl'">>)
  ELSE IF Len(normalized) = 4 THEN Invalid(<<"cURL command is incomplete">>)
  ELSE IF ~flagError.valid THEN flagError
  ELSE CheckUrl(parseCurl(normalized).url)

\* validateCurl with the given flag loop
ValidateWith(curlCommand, normalized, Check(_, _)) ==
  IF Trim(curlCommand) = <<>> THEN Invalid(<<"cURL command cannot be empty">>)
  ELSE CheckNormalized(normalized, Check(FlagTokens(normalized), 1))

validateCurlKnownOnly(curlCommand) ==
  ValidateWith(curlCommand, normalizeCurlCommand(curlCommand), CheckFlagsKnownOnly)

validateCurl(curlCommand) ==
  ValidateWith(curlCommand, normalizeCurlCommand(curlCommand), CheckFlags)

\* ---------------------------------------------------- validateCurl alone
MaxTokens == 4

\* flags that take an argument, one that takes none, one that curl does not
\* know, bare and quoted arguments, a url
BogusFlag == <<"-", "-", "b", "o", "g", "u", "s", "-", "f", "l", "a", "g">>
TokenPool ==
  {<<"-", "X">>, <<"-", "H">>, <<"-", "L">>, BogusFlag, <<"P", "O", "S", "T">>, <<"'", "A", ":", " ", "b", "'">>, <<"'", "-", "z", "'">>, <<"h", "t", "t", "p", ":", "/", "/", "x">>}

Programs == {<<"c", "u", "r", "l">>, <<"w", "g", "e", "t">>}

\* the command line: the program name and the tokens, one blank between them
CommandLine(program, tokens) == Join(<<program>> \o tokens, <<" ">>)

\* args = <<the command text, its tokens>>
ValidateCurlInit ==
  /\ \E program \in Programs, tokens \in SeqsUpTo(TokenPool, MaxTokens) :
       /\ program # <<"c", "u", "r", "l">> => Len(tokens) <= 1
       /\ args = <<CommandLine(program, tokens), tokens>>
  /\ ret = <<>>
  /\ BatchIdle
  /\ ResolverIdle
  /\ StoreIdle

\* validateCurl(x)
ValidateCurl ==
  /\ ret = <<>>
  /\ ret' = <<validateCurl(args[1])>>
  /\ UNCHANGED <<args, batchVars, resolverVars, storeVars>>

ValidateCurlNext == ValidateCurl

SpecValidateCurl == ValidateCurlInit /\ [][ValidateCurlNext]_vars

\* the positions of the tokens that start with "-" and are no curl flag
UnknownFlags(tokens) ==
  {k \in 1..Len(tokens) : tokens[k][1] = "-" /\ tokens[k] \notin KNOWN_CURL_FLAGS}
\* the positions of the flags that take an argument and have none: they are
\* last or followed by a token that starts with "-"
LackingArgument(tokens) ==
  {k \in 1..Len(tokens) :
     /\ tokens[k] \in FLAGS_WITH_ARGS
     /\ k = Len(tokens) \/ tokens[k + 1][1] = "-"}
\* the error text holds the token
Names(error, token) == IndexOfText(error, token) > 0
CurlProgram == OccursAt(args[1], 1, <<"c", "u", "r", "l">>)

\* C15 as stated: a command holding a token that starts with "-", stands
\* outside quoted strings and is no recognized flag is rejected, and the
\* error text names that token.
C15_Original ==
  (ret # <<>> /\ UnknownFlags(args[2]) # {}) =>
    /\ ~ret[1].valid
    /\ \E k \in UnknownFlags(args[2]) : Names(ret[1].error, args[2][k])

\* C15 as amended: such a command is rejected; when it starts with curl the
\* error is the unrecognized-option error for the first such token, or the
\* missing-argument error of a flag that takes an argument and stands before
\* that token, and it is the former when no such flag stands before it.
C15_RejectsUnknownFlag ==
  (ret # <<>> /\ UnknownFlags(args[2]) # {}) =>
    LET first == Least(UnknownFlags(args[2]))
        earlier == {k \in 1..(first - 1) : args[2][k] \in FLAGS_WITH_ARGS}
    IN  /\ ~ret[1].valid
        /\ CurlProgram =>
             \/ ret[1] = UnrecognizedOption(args[2][first])
             \/ \E k \in earlier : ret[1] = MissingArgument(args[2][k])
        /\ (CurlProgram /\ earlier = {}) => ret[1] = UnrecognizedOption(args[2][first])

\* "curl -L --bogus-flag http://x" has been refused for its unknown flag
C15_Witness ==
  /\ ret # <<>>
  /\ args[2] = <<<<"-", "L">>, BogusFlag, <<"h", "t", "t", "p", ":", "/", "/", "x">>>>
  /\ ret[1] = UnrecognizedOption(BogusFlag)

\* the error is a missing-argument error
IsMissingArgument(result) == ~result.valid /\ result.error[1] = "Flag '"

\* C16: a command in which every flag that takes an argument has one, quoted
\* or bare, is never rejected for a missing argument, and a command in which
\* one lacks it is always rejected.
C16_MissingArgumentExactly ==
  ret # <<>> =>
    /\ LackingArgument(args[2]) = {} => ~IsMissingArgument(ret[1])
    /\ LackingArgument(args[2]) # {} => ~ret[1].valid

\* ------------------------------------------------------------- JSON values
\* A value is [t, s, e]: t its type, s the text of a leaf (the characters of
\* a string, the digits of a number, true or false), e the elements of an
\* array or the entries of an object in insertion order; an entry is a value
\* of type "entry" whose s is the key and whose one element is the value.
JUndefined == [t |-> "undefined", s |-> <<>>, e |-> <<>>]
JNull == [t |-> "null", s |-> <<>>, e |-> <<>>]
JTrue == [t |-> "boolean", s |-> <<"t", "r", "u", "e">>, e |-> <<>>]
JFalse == [t |-> "boolean", s |-> <<"f", "a", "l", "s", "e">>, e |-> <<>>]
JNum(digits) == [t |-> "number", s |-> digits, e |-> <<>>]
JStr(chars) == [t |-> "string", s |-> chars, e |-> <<>>]
JArr(elements) == [t |-> "array", s |-> <<>>, e |-> elements]
JObj(entries) == [t |-> "object", s |-> <<>>, e |-> entries]
Entry(key, value) == [t |-> "entry", s |-> key, e |-> <<value>>]

\* Object.keys
Keys(o) == [k \in 1..Len(o.e) |-> o.e[k].s]
\* o[key], for a key the object has
Get(o, key) == o.e[CHOOSE k \in 1..Len(o.e) : o.e[k].s = key].e[1]
Has(o, key) == \E k \in 1..Len(o.e) : o.e[k].s = key
\* an integer-like key ("0", "7", "10"): an object lists these first, in
\* ascending numeric order, whatever the order they were set in
IsArrayIndex(key) ==
  /\ key # <<>>
  /\ \A i \in 1..Len(key) : key[i] \in Digits
  /\ Len(key) > 1 => key[1] # "0"
DigitValue(ch) == CHOOSE n \in 0..9 : <<"0", "1", "2", "3", "4", "5", "6", "7", "8", "9">>[n + 1] = ch
RECURSIVE NumericValue(_)
NumericValue(key) ==
  IF key = <<>> THEN 0
  ELSE 10 * NumericValue(SubSeq(key, 1, Len(key) - 1)) + DigitValue(key[Len(key)])
\* result[key] = value on the entries of an object under construction: the
\* value of a key already there is replaced in place, a new integer-like key
\* goes among the integer-like keys, any other new key goes last
SetEntry(entries, key, value) ==
  IF \E k \in 1..Len(entries) : entries[k].s = key
    THEN [k \in 1..Len(entries) |-> IF entries[k].s = key THEN Entry(key, value) ELSE entries[k]]
  ELSE IF IsArrayIndex(key)
    THEN LET n == Cardinality({k \in 1..Len(entries) :
                                 /\ IsArrayIndex(entries[k].s)
                                 /\ NumericValue(entries[k].s) < NumericValue(key)})
         IN  SubSeq(entries, 1, n) \o <<Entry(key, value)>> \o SubSeq(entries, n + 1, Len(entries))
  ELSE Append(entries, Entry(key, value))

\* the escapes JSON.stringify writes inside a string
RECURSIVE EscapeJson(_)
EscapeJson(chars) ==
  IF chars = <<>> THEN <<>>
  ELSE (IF chars[1] \in {"\"", BACKSLASH} THEN <<BACKSLASH, chars[1]>>
        ELSE IF chars[1] = LF THEN <<BACKSLASH, "n">>
        ELSE IF chars[1] = CR THEN <<BACKSLASH, "r">>
        ELSE <<chars[1]>>) \o EscapeJson(Tail(chars))

\* JSON.stringify(value), without indentation
RECURSIVE JSONstringify(_)
RECURSIVE StringifyElements(_)
RECURSIVE StringifyEntries(_)
JSONstringify(v) ==
  IF v.t = "null" THEN <<"n", "u", "l", "l">>
  ELSE IF v.t \in {"boolean", "number"} THEN v.s
  ELSE IF v.t = "string" THEN <<"\"">> \o EscapeJson(v.s) \o <<"\"">>
  ELSE IF v.t = "array" THEN <<"[">> \o StringifyElements(v.e) \o <<"]">>
  ELSE <<"{">> \o StringifyEntries(v.e) \o <<"}">>
StringifyElements(elements) ==
  IF elements = <<>> THEN <<>>
  ELSE JSONstringify(elements[1])
         \o (IF Len(elements) > 1 THEN <<",">> \o StringifyElements(Tail(elements)) ELSE <<>>)
StringifyEntries(entries) ==
  IF entries = <<>> THEN <<>>
  ELSE <<"\"">> \o EscapeJson(entries[1].s) \o <<"\"", ":">> \o JSONstringify(entries[1].e[1])
         \o (IF Len(entries) > 1 THEN <<",">> \o StringifyEntries(Tail(entries)) ELSE <<>>)

\* JSON.parse: a recursive descent over the text.  Each reader returns
\* [ok, v, next]: whether a value starts at position i, the value, and the
\* position after it.
ParseFail == [ok |-> FALSE, v |-> JUndefined, next |-> 0]

\* the characters of a string literal whose opening quote is before i:
\* [ok, chars, next]
RECURSIVE ReadString(_, _)
ReadString(c, i) ==
  IF i > Len(c) THEN [ok |-> FALSE, chars |-> <<>>, next |-> 0]
  ELSE IF c[i] = "\"" THEN [ok |-> TRUE, chars |-> <<>>, next |-> i + 1]
  ELSE IF c[i] = BACKSLASH
    THEN IF i + 1 > Len(c) \/ c[i + 1] \notin {"\"", BACKSLASH, "n", "r"}
           THEN [ok |-> FALSE, chars |-> <<>>, next |-> 0]
           ELSE LET rest == ReadString(c, i + 2)
                    ch == IF c[i + 1] = "n" THEN LF ELSE IF c[i + 1] = "r" THEN CR ELSE c[i + 1]
                IN  [rest EXCEPT !.chars = <<ch>> \o @]
  ELSE IF c[i] \in {LF, CR} THEN [ok |-> FALSE, chars |-> <<>>, next |-> 0]
  ELSE LET rest == ReadString(c, i + 1) IN [rest EXCEPT !.chars = <<c[i]>> \o @]

RECURSIVE ReadValue(_, _)
RECURSIVE ReadElements(_, _, _)
RECURSIVE ReadEntries(_, _, _)
ReadValue(c, i) ==
  IF i > Len(c) THEN ParseFail
  ELSE IF OccursAt(c, i, <<"n", "u", "l", "l">>) THEN [ok |-> TRUE, v |-> JNull, next |-> i + 4]
  ELSE IF OccursAt(c, i, <<"t", "r", "u", "e">>) THEN [ok |-> TRUE, v |-> JTrue, next |-> i + 4]
  ELSE IF OccursAt(c, i, <<"f", "a", "l", "s", "e">>) THEN [ok |-> TRUE, v |-> JFalse, next |-> i + 5]
  ELSE IF c[i] \in Digits
    THEN [ok |-> TRUE, v |-> JNum(SubSeq(c, i, RunOf(c, i, Digits) - 1)),
          next |-> RunOf(c, i, Digits)]
  ELSE IF c[i] = "\""
    THEN LET str == ReadString(c, i + 1)
         IN  IF str.ok THEN [ok |-> TRUE, v |-> JStr(str.chars), next |-> str.next] ELSE ParseFail
  ELSE IF c[i] = "["
    THEN IF OccursAt(c, i + 1, <<"]">>) THEN [ok |-> TRUE, v |-> JArr(<<>>), next |-> i + 2]
         ELSE ReadElements(c, i + 1, <<>>)
  ELSE IF c[i] = "{"
    THEN IF OccursAt(c, i + 1, <<"}">>) THEN [ok |-> TRUE, v |-> JObj(<<>>), next |-> i + 2]
         ELSE ReadEntries(c, i + 1, <<>>)
  ELSE ParseFail
\* the elements of an array from position i on, after those in acc
ReadElements(c, i, acc) ==
  LET el == ReadValue(c, i)
  IN  IF ~el.ok \/ el.next > Len(c) THEN ParseFail
      ELSE IF c[el.next] = "]"
        THEN [ok |-> TRUE, v |-> JArr(Append(acc, el.v)), next |-> el.next + 1]
      ELSE IF c[el.next] = "," THEN ReadElements(c, el.next + 1, Append(acc, el.v))
      ELSE ParseFail
\* the entries of an object from position i on, after those in acc; a key
\* that comes again replaces the value of its entry
ReadEntries(c, i, acc) ==
  LET key == IF OccursAt(c, i, <<"\"">>) THEN ReadString(c, i + 1)
             ELSE [ok |-> FALSE, chars |-> <<>>, next |-> 0]
      val == IF key.ok /\ OccursAt(c, key.next, <<":">>) THEN ReadValue(c, key.next + 1)
             ELSE ParseFail
  IN  IF ~val.ok \/ val.next > Len(c) THEN ParseFail
      ELSE IF c[val.next] = "}"
        THEN [ok |-> TRUE, v |-> JObj(SetEntry(acc, key.chars, val.v)), next |-> val.next + 1]
      ELSE IF c[val.next] = ","
        THEN ReadEntries(c, val.next + 1, SetEntry(acc, key.chars, val.v))
      ELSE ParseFail

\* JSON.parse(text): ok is FALSE where it throws
JSONparse(text) ==
  LET r == ReadValue(text, 1)
  IN  IF r.ok /\ r.next = Len(text) + 1 THEN r ELSE ParseFail

\* ------------------------------------------------- JSONPath (jsonpath-plus)
\* The library is called at diffService.ts lines 23 and 285.  An expression
\* is a sequence of tokens; besides the well-formed ones there are two
\* malformed ones: MalformedBrackets, which the library's lenient path
\* splitting reads as a descendant search for the name after the brackets,
\* and MalformedFilter, whose script fails when it is evaluated on a child.
MalformedBrackets == "[[[a"
MalformedFilter == "[?(]"
WellFormedSteps == {".a", ".b", ".id", "[0]", "[1]", "[*]", "..a"}
PathTokens == WellFormedSteps \cup {MalformedBrackets, MalformedFilter}

Prop(key, index) == [kind |-> "prop", key |-> key, index |-> index]
Wild == [kind |-> "wild", key |-> <<>>, index |-> -1]
Desc == [kind |-> "desc", key |-> <<>>, index |-> -1]
Filter == [kind |-> "filter", key |-> <<>>, index |-> -1]

\* the steps one token stands for; white space around the path becomes part
\* of a property name, which no value of the model has
StepsOf(token) ==
  CASE token = ".a" -> <<Prop(<<"a">>, -1)>>
    [] token = ".b" -> <<Prop(<<"b">>, -1)>>
    [] token = ".id" -> <<Prop(<<"i", "d">>, -1)>>
    [] token = "[0]" -> <<Prop(<<"0">>, 0)>>
    [] token = "[1]" -> <<Prop(<<"1">>, 1)>>
    [] token = "[*]" -> <<Wild>>
    [] token = "..a" -> <<Desc, Prop(<<"a">>, -1)>>
    [] token = MalformedBrackets -> <<Desc, Prop(<<"a">>, -1)>>
    [] token = MalformedFilter -> <<Filter>>
    [] token \in WhiteSpace -> <<Prop(<<token>>, -1)>>
    [] OTHER -> <<>>

\* JSONPath.toPathArray, the leading "$" dropped
RECURSIVE toPathArray(_)
toPathArray(expr) ==
  IF expr = <<>> THEN <<>>
  ELSE (IF expr[1] = "$" THEN <<>> ELSE StepsOf(expr[1])) \o toPathArray(Tail(expr))

\* one place of a path to a node: a key of an object or an index of an array
AtKey(key) == [isIndex |-> FALSE, key |-> key, index |-> -1]
AtIndex(n) == [isIndex |-> TRUE, key |-> <<>>, index |-> n]

\* the children the library walks: [at, value] in the order of the document
Children(v) ==
  IF v.t = "array" THEN [k \in 1..Len(v.e) |-> [at |-> AtIndex(k - 1), value |-> v.e[k]]]
  ELSE IF v.t = "object" THEN [k \in 1..Len(v.e) |-> [at |-> AtKey(v.e[k].s), value |-> v.e[k].e[1]]]
  ELSE <<>>

NoNodes == [threw |-> FALSE, nodes |-> <<>>]
Both(r1, r2) == [threw |-> r1.threw \/ r2.threw, nodes |-> r1.nodes \o r2.nodes]

\* JSONPath.prototype._trace: the nodes [path, value] the steps select
\* below v, in the order the library collects them, and whether it threw
RECURSIVE Trace(_, _, _)
RECURSIVE TraceChildren(_, _, _, _)
Trace(steps, v, path) ==
  IF steps = <<>> THEN [threw |-> FALSE, nodes |-> <<[path |-> path, value |-> v]>>]
  ELSE LET loc == steps[1]
           x == Tail(steps)
       IN  IF loc.kind = "prop"
             THEN IF v.t = "object" /\ Has(v, loc.key)
                    THEN Trace(x, Get(v, loc.key), Append(path, AtKey(loc.key)))
                  ELSE IF v.t = "array" /\ loc.index >= 0 /\ loc.index < Len(v.e)
                    THEN Trace(x, v.e[loc.index + 1], Append(path, AtIndex(loc.index)))
                  ELSE IF v.t = "string" /\ loc.index >= 0 /\ loc.index < Len(v.s)
                    THEN Trace(x, JStr(<<v.s[loc.index + 1]>>), Append(path, AtIndex(loc.index)))
                  ELSE NoNodes
           ELSE IF loc.kind = "wild" THEN TraceChildren(x, Children(v), path, FALSE)
           ELSE IF loc.kind = "desc"
             THEN Both(Trace(x, v, path), TraceChildren(steps, Children(v), path, TRUE))
           ELSE IF Children(v) # <<>> THEN [threw |-> TRUE, nodes |-> <<>>]
           ELSE NoNodes
\* the steps applied to each child in turn; objectsOnly skips the children
\* that are neither arrays nor objects
TraceChildren(steps, children, path, objectsOnly) ==
  IF children = <<>> THEN NoNodes
  ELSE Both(IF objectsOnly /\ children[1].value.t \notin {"array", "object"} THEN NoNodes
            ELSE Trace(steps, children[1].value, Append(path, children[1].at)),
            TraceChildren(steps, Tail(children), path, objectsOnly))

Falsy(v) ==
  \/ v.t \in {"undefined", "null"}
  \/ v.t = "boolean" /\ v.s = JFalse.s
  \/ v.t = "number" /\ v.s = <<"0">>
  \/ v.t = "string" /\ v.s = <<>>

\* JSONPath({path, json, ...}): the selected nodes, none for a falsy json
JSONPath(path, json) ==
  IF Falsy(json) THEN [threw |-> FALSE, isArray |-> FALSE, nodes |-> <<>>]
  ELSE LET r == Trace(toPathArray(path), json, <<>>)
       IN  [threw |-> r.threw, isArray |-> TRUE, nodes |-> IF r.threw THEN <<>> ELSE r.nodes]

\* ------------------------------------------------------------ diffService
\* String.prototype.includes for a needle of several characters
IncludesText(chars, word) == \E i \in 1..(Len(chars) + 1) : OccursAt(chars, i, word)

isTimestampKey(key) ==
  LET lower == toLowerCase(key)
  IN  \/ IncludesText(lower, <<"t", "i", "m", "e">>)
      \/ IncludesText(lower, <<"d", "a", "t", "e">>)
      \/ lower = <<"c", "r", "e", "a", "t", "e", "d", "a", "t">>
      \/ lower = <<"u", "p", "d", "a", "t", "e", "d", "a", "t">>

isIdKey(key) ==
  toLowerCase(key) \in {<<"i", "d">>, <<"_", "i", "d">>, <<"u", "u", "i", "d">>, <<"g", "u", "i", "d">>}

RECURSIVE removeTimestamps(_)
RECURSIVE RemoveTimestampEntries(_, _)
removeTimestamps(data) ==
  IF data.t = "array" THEN JArr([k \in 1..Len(data.e) |-> removeTimestamps(data.e[k])])
  ELSE IF data.t = "object" THEN JObj(RemoveTimestampEntries(data.e, <<>>))
  ELSE data
RemoveTimestampEntries(entries, result) ==
  IF entries = <<>> THEN result
  ELSE RemoveTimestampEntries(Tail(entries),
         IF isTimestampKey(entries[1].s) THEN result
         ELSE SetEntry(result, entries[1].s, removeTimestamps(entries[1].e[1])))

RECURSIVE removeIds(_)
RECURSIVE RemoveIdEntries(_, _)
removeIds(data) ==
  IF data.t = "array" THEN JArr([k \in 1..Len(data.e) |-> removeIds(data.e[k])])
  ELSE IF data.t = "object" THEN JObj(RemoveIdEntries(data.e, <<>>))
  ELSE data
RemoveIdEntries(entries, result) ==
  IF entries = <<>> THEN result
  ELSE RemoveIdEntries(Tail(entries),
         IF isIdKey(entries[1].s) THEN result
         ELSE SetEntry(result, entries[1].s, removeIds(entries[1].e[1])))

RECURSIVE normalizeWhitespace(_)
normalizeWhitespace(data) ==
  IF data.t = "string" THEN JStr(CollapseWhiteSpace(Trim(data.s)))
  ELSE IF data.t = "array" THEN JArr([k \in 1..Len(data.e) |-> normalizeWhitespace(data.e[k])])
  ELSE IF data.t = "object"
    THEN JObj([k \in 1..Len(data.e) |-> Entry(data.e[k].s, normalizeWhitespace(data.e[k].e[1]))])
  ELSE data

RECURSIVE toLowerCaseRecursive(_)
RECURSIVE LowerCaseEntries(_, _)
toLowerCaseRecursive(data) ==
  IF data.t = "string" THEN JStr(toLowerCase(data.s))
  ELSE IF data.t = "array" THEN JArr([k \in 1..Len(data.e) |-> toLowerCaseRecursive(data.e[k])])
  ELSE IF data.t = "object" THEN JObj(LowerCaseEntries(data.e, <<>>))
  ELSE data
LowerCaseEntries(entries, result) ==
  IF entries = <<>> THEN result
  ELSE LowerCaseEntries(Tail(entries),
         SetEntry(result, toLowerCase(entries[1].s), toLowerCaseRecursive(entries[1].e[1])))

\* String.prototype.localeCompare in the root collation, on the characters
\* of the model: punctuation before digits before letters; letters that
\* differ only in case are told apart last, the lower case one first
CollationOrder ==
  <<LF, CR, " ", "_", "-", ",", ":", "'", "\"", "[", "]", "{", "}", "/", BACKSLASH,
    "0", "1", "2", "3", "4", "5", "6", "7", "8", "9">>
Primary(ch) ==
  LET lower == toLowerCaseChar(ch)
  IN  IF \E i \in 1..Len(CollationOrder) : CollationOrder[i] = ch
        THEN CHOOSE i \in 1..Len(CollationOrder) : CollationOrder[i] = ch
      ELSE IF \E i \in 1..26 : LowerCase[i] = lower
        THEN Len(CollationOrder) + (CHOOSE i \in 1..26 : LowerCase[i] = lower)
      ELSE Len(CollationOrder) + 27
Tertiary(ch) == IF \E i \in 1..26 : UpperCase[i] = ch THEN 1 ELSE 0
\* the comparison of two sequences of weights: -1, 0 or 1
CompareWeights(wa, wb) ==
  LET D == {i \in 1..Len(wa) : i > Len(wb) \/ wa[i] # wb[i]}
  IN  IF D = {} THEN (IF Len(wa) = Len(wb) THEN 0 ELSE -1)
      ELSE IF Least(D) > Len(wb) THEN 1
      ELSE IF wa[Least(D)] < wb[Least(D)] THEN -1 ELSE 1
\* Two characters beyond ASCII: U+00E9, the precomposed e with acute, and
\* U+0301, the combining acute.  The text U+00E9 and the text "e" U+0301 are
\* canonically equivalent: different code units, equal under localeCompare.
EAcute == "U+00E9"
CombiningAcute == "U+0301"
\* the canonical decomposition the comparison works on
RECURSIVE Decomposed(_)
Decomposed(s) ==
  IF s = <<>> THEN <<>>
  ELSE (IF s[1] = EAcute THEN <<"e", CombiningAcute>> ELSE <<s[1]>>) \o Decomposed(Tail(s))
BaseCharacters(d) == SelectSeq(d, LAMBDA ch : ch # CombiningAcute)
\* per base character: 1 when an accent follows it (told apart after the
\* letters, before case)
RECURSIVE Accents(_)
Accents(d) ==
  IF d = <<>> THEN <<>>
  ELSE IF d[1] = CombiningAcute THEN Accents(Tail(d))
  ELSE <<IF Len(d) > 1 /\ d[2] = CombiningAcute THEN 1 ELSE 0>> \o Accents(Tail(d))
CompareBase(ba, bb, secondary) ==
  IF CompareWeights([i \in 1..Len(ba) |-> Primary(ba[i])],
                    [i \in 1..Len(bb) |-> Primary(bb[i])]) # 0
    THEN CompareWeights([i \in 1..Len(ba) |-> Primary(ba[i])],
                        [i \in 1..Len(bb) |-> Primary(bb[i])])
  ELSE IF secondary # 0 THEN secondary
  ELSE CompareWeights([i \in 1..Len(ba) |-> Tertiary(ba[i])],
                      [i \in 1..Len(bb) |-> Tertiary(bb[i])])
localeCompare(sa, sb) ==
  CompareBase(BaseCharacters(Decomposed(sa)), BaseCharacters(Decomposed(sb)),
              CompareWeights(Accents(Decomposed(sa)), Accents(Decomposed(sb))))

\* Array.prototype.sort with the comparator of sortArraysRecursive: the
\* stable order of the elements by their serialized form
RECURSIVE SortBySerializedForm(_)
SortBySerializedForm(elements) ==
  IF elements = <<>> THEN <<>>
  ELSE LET rest == SortBySerializedForm(Tail(elements))
           sa == JSONstringify(elements[1])
           before == {k \in 1..Len(rest) : localeCompare(JSONstringify(rest[k]), sa) < 0}
           n == Cardinality(before)
       IN  SubSeq(rest, 1, n) \o <<elements[1]>> \o SubSeq(rest, n + 1, Len(rest))

RECURSIVE sortArraysRecursive(_)
sortArraysRecursive(data) ==
  IF data.t = "array"
    THEN JArr(SortBySerializedForm([k \in 1..Len(data.e) |-> sortArraysRecursive(data.e[k])]))
  ELSE IF data.t = "object"
    THEN JObj([k \in 1..Len(data.e) |-> Entry(data.e[k].s, sortArraysRecursive(data.e[k].e[1]))])
  ELSE data

\* delete node.parent[node.parentProperty] for the node at the path, unless
\* the parent is an array (or the node is the root, or is gone already)
RECURSIVE DeleteAt(_, _)
DeleteAt(v, path) ==
  IF path = <<>> THEN v
  ELSE IF v.t = "object" /\ ~path[1].isIndex /\ Has(v, path[1].key)
    THEN IF Len(path) = 1
           THEN JObj(SelectSeq(v.e, LAMBDA entry : entry.s # path[1].key))
           ELSE JObj([k \in 1..Len(v.e) |->
                        IF v.e[k].s = path[1].key
                          THEN Entry(v.e[k].s, DeleteAt(v.e[k].e[1], Tail(path)))
                          ELSE v.e[k]])
  ELSE IF v.t = "array" /\ path[1].isIndex /\ path[1].index < Len(v.e) /\ Len(path) > 1
    THEN JArr([k \in 1..Len(v.e) |->
                 IF k = path[1].index + 1 THEN DeleteAt(v.e[k], Tail(path)) ELSE v.e[k]])
  ELSE v

RECURSIVE DeleteNodes(_, _)
DeleteNodes(clone, nodes) ==
  IF nodes = <<>> THEN clone
  ELSE DeleteNodes(DeleteAt(clone, nodes[1].path), Tail(nodes))

RECURSIVE RemovePaths(_, _)
RemovePaths(clone, paths) ==
  IF paths = <<>> THEN clone
  ELSE RemovePaths(DeleteNodes(clone, JSONPath(paths[1], clone).nodes), Tail(paths))

removeCustomPaths(data, paths) ==
  IF paths = <<>> THEN data
  ELSE RemovePaths(JSONparse(JSONstringify(data)).v, paths)

preprocessDataSorted(data, options) ==
  IF data.t \in {"null", "undefined"} THEN data
  ELSE LET processed == JSONparse(JSONstringify(data)).v
           p1 == IF options.ignoreTimestamps THEN removeTimestamps(processed) ELSE processed
           p2 == IF options.ignoreIds THEN removeIds(p1) ELSE p1
           p3 == IF options.ignoreWhitespace THEN normalizeWhitespace(p2) ELSE p2
           p4 == IF options.caseInsensitive THEN toLowerCaseRecursive(p3) ELSE p3
           p5 == IF ~options.ignoreArrayOrder THEN sortArraysRecursive(p4) ELSE p4
       IN  IF options.customIgnorePaths # <<>>
             THEN removeCustomPaths(p5, options.customIgnorePaths)
             ELSE p5

preprocessData(data, options) ==
  IF data.t \in {"null", "undefined"} THEN data
  ELSE LET processed == JSONparse(JSONstringify(data)).v
           p1 == IF options.ignoreTimestamps THEN removeTimestamps(processed) ELSE processed
           p2 == IF options.ignoreIds THEN removeIds(p1) ELSE p1
           p3 == IF options.ignoreWhitespace THEN normalizeWhitespace(p2) ELSE p2
           p4 == IF options.caseInsensitive THEN toLowerCaseRecursive(p3) ELSE p3
           p5 == IF options.ignoreArrayOrder THEN sortArraysRecursive(p4) ELSE p4
       IN  IF options.customIgnorePaths # <<>>
             THEN removeCustomPaths(p5, options.customIgnorePaths)
             ELSE p5

\* ------------------------------------------------- preprocessData alone
MaxWidth == 2
MaxPaths == 1

SampleKeys == {<<"b">>, <<"a">>, <<"I", "d">>, <<"D", "a", "t", "e">>}
SampleText == JStr(<<LF, "A", BACKSLASH, " ", " ", "\"">>)
\* the values found inside the sampled arrays and objects
InnerValues ==
  {JNull, JFalse, JNum(<<"1", "0">>), SampleText,
   JArr(<<JStr(<<"b">>), JStr(<<"a">>)>>),
   JObj(<<Entry(<<"b">>, JNum(<<"2">>)), Entry(<<"i", "d">>, JNum(<<"1">>))>>)}
\* the entries of an object: no key twice
EntriesUpTo(keys, values, n) ==
  {entries \in SeqsUpTo({Entry(key, value) : key \in keys, value \in values}, n) :
     \A i, j \in 1..Len(entries) : entries[i].s = entries[j].s => i = j}
JsonValues ==
  InnerValues
    \cup {JArr(elements) : elements \in SeqsUpTo(InnerValues, MaxWidth)}
    \cup {JObj(entries) : entries \in EntriesUpTo(SampleKeys, InnerValues, MaxWidth)}

AllOff ==
  [ignoreTimestamps |-> FALSE, ignoreIds |-> FALSE, ignoreWhitespace |-> FALSE,
   caseInsensitive |-> FALSE, ignoreArrayOrder |-> FALSE, customIgnorePaths |-> <<>>]
AllOn ==
  [ignoreTimestamps |-> TRUE, ignoreIds |-> TRUE, ignoreWhitespace |-> TRUE,
   caseInsensitive |-> TRUE, ignoreArrayOrder |-> TRUE, customIgnorePaths |-> <<>>]
SamplePaths == {<<"$", ".a">>, <<"$", "[*]", ".id">>, <<"$", MalformedFilter>>}
\* all toggles off, one toggle on, all on, or custom paths only
SampleOptions ==
  {AllOff, AllOn}
    \cup {[AllOff EXCEPT ![f] = TRUE] :
            f \in {"ignoreTimestamps", "ignoreIds", "ignoreWhitespace", "caseInsensitive",
                   "ignoreArrayOrder"}}
    \cup {[AllOff EXCEPT !.customIgnorePaths = paths] : paths \in SeqsUpTo(SamplePaths, MaxPaths)}

PreprocessInit ==
  /\ \E data \in JsonValues \cup {JUndefined}, options \in SampleOptions :
       args = <<data, options>>
  /\ ret = <<>>
  /\ BatchIdle
  /\ ResolverIdle
  /\ StoreIdle

\* one call of preprocessData(data, options)
Preprocess ==
  /\ ret = <<>>
  /\ ret' = <<preprocessData(args[1], args[2])>>
  /\ UNCHANGED <<args, batchVars, resolverVars, storeVars>>

PreprocessNext == Preprocess

SpecPreprocess == PreprocessInit /\ [][PreprocessNext]_vars

\* deep equality: same type, same leaf or key, and deep-equal elements or
\* entries in the same order
RECURSIVE DeepEqual(_, _)
DeepEqual(a, b) ==
  /\ a.t = b.t
  /\ a.s = b.s
  /\ Len(a.e) = Len(b.e)
  /\ \A k \in 1..Len(a.e) : DeepEqual(a.e[k], b.e[k])

TogglesOff(options) ==
  /\ ~options.ignoreTimestamps
  /\ ~options.ignoreIds
  /\ ~options.ignoreWhitespace
  /\ ~options.caseInsensitive
  /\ ~options.ignoreArrayOrder
  /\ options.customIgnorePaths = <<>>

\* C17: with the five toggles off and no custom ignore paths preprocessData
\* returns a value deep-equal to its input: same keys in the same order,
\* same array order, same leaves.
C17_AllOffIsIdentity ==
  (Len(ret) = 1 /\ Len(args) = 2 /\ TogglesOff(args[2])) => DeepEqual(ret[1], args[1])

\* an object with an unsorted array and a text with quote, backslash, line
\* feed and upper case under a date key went through with everything off
C17_Witness ==
  /\ Len(ret) = 1
  /\ Len(args) = 2
  /\ TogglesOff(args[2])
  /\ args[1].t = "object"
  /\ Keys(args[1]) = << <<"D", "a", "t", "e">>, <<"b">> >>
  /\ DeepEqual(Get(args[1], <<"b">>), JArr(<<JStr(<<"b">>), JStr(<<"a">>)>>))
  /\ DeepEqual(Get(args[1], <<"D", "a", "t", "e">>), SampleText)
  /\ DeepEqual(ret[1], args[1])

\* ------------------------------------------------ sortJsonKeysCommonFirst
\* keys.toSorted((a, b) => a.localeCompare(b))
RECURSIVE ToSorted(_)
ToSorted(keys) ==
  IF keys = <<>> THEN <<>>
  ELSE LET rest == ToSorted(Tail(keys))
           n == Cardinality({k \in 1..Len(rest) : localeCompare(rest[k], keys[1]) < 0})
       IN  SubSeq(rest, 1, n) \o <<keys[1]>> \o SubSeq(rest, n + 1, Len(rest))

RECURSIVE sortJsonKeysCommonFirst(_, _)
RECURSIVE SetCommon(_, _, _, _, _)
RECURSIVE SetOwn(_, _, _)
sortJsonKeysCommonFirst(left, right) ==
  IF left.t # "object" \/ right.t # "object" THEN <<left, right>>
  ELSE LET leftKeys == Keys(left)
           rightKeys == Keys(right)
           commonKeys == ToSorted(SelectSeq(leftKeys, LAMBDA k : Has(right, k)))
           leftOnlyKeys == ToSorted(SelectSeq(leftKeys, LAMBDA k : ~Has(right, k)))
           rightOnlyKeys == ToSorted(SelectSeq(rightKeys, LAMBDA k : ~Has(left, k)))
       IN  <<JObj(SetOwn(leftOnlyKeys, left, SetCommon(commonKeys, left, right, 1, <<>>))),
             JObj(SetOwn(rightOnlyKeys, right, SetCommon(commonKeys, left, right, 2, <<>>)))>>
\* the loop over the common keys, for one side (1 the left, 2 the right)
SetCommon(keys, l, r, side, sorted) ==
  IF keys = <<>> THEN sorted
  ELSE SetCommon(Tail(keys), l, r, side,
         SetEntry(sorted, keys[1], sortJsonKeysCommonFirst(Get(l, keys[1]), Get(r, keys[1]))[side]))
\* the loop over the keys of one side only
SetOwn(keys, o, sorted) ==
  IF keys = <<>> THEN sorted
  ELSE SetOwn(Tail(keys), o, SetEntry(sorted, keys[1], Get(o, keys[1])))

\* -------------------------------------- sortJsonKeysCommonFirst alone
\* the object with the given entries set one after the other
RECURSIVE SetAll(_, _)
SetAll(entries, sorted) ==
  IF entries = <<>> THEN sorted
  ELSE SetAll(Tail(entries), SetEntry(sorted, entries[1].s, entries[1].e[1]))
ObjectOf(entries) == JObj(SetAll(entries, <<>>))

SortKeys == {<<"b">>, <<"a">>, <<"c">>, <<"1">>}
SortLeaves == {JNull, JNum(<<"1">>), JStr(<<"x">>), JArr(<<JNum(<<"2">>), JNum(<<"1">>)>>)}
\* objects nested under the keys of the sampled objects
NestedObjects ==
  {ObjectOf(<<Entry(<<"b">>, JNum(<<"1">>)), Entry(<<"a">>, JNum(<<"2">>))>>),
   ObjectOf(<<Entry(<<"c">>, JNum(<<"4">>)), Entry(<<"a">>, JNum(<<"3">>))>>)}
SortObjects ==
  {ObjectOf(entries) : entries \in EntriesUpTo(SortKeys, {JNum(<<"1">>)} \cup NestedObjects, MaxWidth)}
\* the two sides of the documented example
ExampleLeft == ObjectOf(<<Entry(<<"b">>, JNum(<<"1">>)), Entry(<<"a">>, JNum(<<"2">>))>>)
ExampleRight == ObjectOf(<<Entry(<<"a">>, JNum(<<"3">>)), Entry(<<"c">>, JNum(<<"4">>))>>)
LeftSides == SortLeaves \cup {JUndefined, ExampleLeft} \cup SortObjects
RightSides ==
  SortLeaves \cup {JUndefined, ExampleRight}
    \cup {ObjectOf(<<Entry(<<"c">>, ExampleRight), Entry(<<"a">>, ExampleLeft)>>),
          ObjectOf(<<Entry(<<"b">>, JNum(<<"1">>)), Entry(<<"1">>, ExampleRight),
                     Entry(<<"a">>, ExampleRight)>>)}

SortKeysInit ==
  /\ \E left \in LeftSides, right \in RightSides : args = <<left, right>>
  /\ ret = <<>>
  /\ BatchIdle
  /\ ResolverIdle
  /\ StoreIdle

\* one call of sortJsonKeysCommonFirst(left, right)
SortCommonFirst ==
  /\ ret = <<>>
  /\ ret' = <<JArr(sortJsonKeysCommonFirst(args[1], args[2]))>>
  /\ UNCHANGED <<args, batchVars, resolverVars, storeVars>>

SortKeysNext == SortCommonFirst

SpecSortKeys == SortKeysInit /\ [][SortKeysNext]_vars

\* the order of two keys by their code units: digits, upper case, lower case
CodeUnitOrder ==
  <<"0", "1", "2", "3", "4", "5", "6", "7", "8", "9">> \o UpperCase \o <<"_">> \o LowerCase
CodeUnit(ch) == CHOOSE i \in 1..Len(CodeUnitOrder) : CodeUnitOrder[i] = ch
LexicographicallyBefore(a, b) ==
  CompareWeights([i \in 1..Len(a) |-> CodeUnit(a[i])], [i \in 1..Len(b) |-> CodeUnit(b[i])]) < 0
InLexicographicOrder(keys) ==
  \A i, j \in 1..Len(keys) : i < j => LexicographicallyBefore(keys[i], keys[j])

\* what the claim asks of one returned side for the inputs own and other
RECURSIVE CommonFirst(_, _, _)
CommonFirst(sorted, own, other) ==
  IF own.t # "object" \/ other.t # "object" THEN DeepEqual(sorted, own)
  ELSE LET keys == Keys(sorted)
           common == SelectSeq(keys, LAMBDA k : Has(other, k))
           ownOnly == SelectSeq(keys, LAMBDA k : ~Has(other, k))
       IN  /\ sorted.t = "object"
           /\ {keys[k] : k \in 1..Len(keys)} = {own.e[k].s : k \in 1..Len(own.e)}
           /\ keys = common \o ownOnly
           /\ InLexicographicOrder(common)
           /\ InLexicographicOrder(ownOnly)
           /\ \A k \in 1..Len(common) :
                CommonFirst(Get(sorted, common[k]), Get(own, common[k]), Get(other, common[k]))
           /\ \A k \in 1..Len(ownOnly) : DeepEqual(Get(sorted, ownOnly[k]), Get(own, ownOnly[k]))

\* C18: sortJsonKeysCommonFirst returns both inputs untouched unless both
\* are objects; for two objects each returned side has exactly the keys and
\* values of its input, the keys of both sides first in lexicographic order
\* (their values treated the same way), then the keys of that side only in
\* lexicographic order.
C18_CommonKeysFirst ==
  Len(ret) = 1 /\ ret[1].t = "array" /\ Len(ret[1].e) = 2 /\ Len(args) = 2 =>
    /\ CommonFirst(ret[1].e[1], args[1], args[2])
    /\ CommonFirst(ret[1].e[2], args[2], args[1])

\* the documented example and its result
C18_Example ==
  /\ Len(args) = 2
  /\ DeepEqual(args[1], ExampleLeft)
  /\ DeepEqual(args[2], ExampleRight)
  /\ Len(ret) = 1
  /\ DeepEqual(ret[1].e[1], JObj(<<Entry(<<"a">>, JNum(<<"2">>)), Entry(<<"b">>, JNum(<<"1">>))>>))
  /\ DeepEqual(ret[1].e[2], ExampleRight)

\* ------------------------------------------------------------ applyJsonPath
NoMatchesFound == "No matches found"
\* the message of the error the library throws for a script it cannot run
LibraryMessage == "jsonPath: Unexpected token"

RECURSIVE ValuesOf(_)
ValuesOf(nodes) ==
  IF nodes = <<>> THEN <<>> ELSE <<nodes[1].value>> \o ValuesOf(Tail(nodes))

applyJsonPath(data, expression) ==
  IF Trim(expression) = <<>> THEN [threw |-> FALSE, result |-> data, error |-> ""]
  ELSE LET found == JSONPath(expression, data)
           matches == ValuesOf(found.nodes)
       IN  IF found.threw
             THEN [threw |-> FALSE, result |-> JUndefined, error |-> LibraryMessage]
           ELSE IF ~found.isArray \/ Len(matches) = 0
             THEN [threw |-> FALSE, result |-> JUndefined, error |-> NoMatchesFound]
           ELSE [threw |-> FALSE,
                 result |-> IF Len(matches) = 1 THEN matches[1] ELSE JArr(matches),
                 error |-> ""]

\* ------------------------------------------------- applyJsonPath alone
MaxSteps == 3

IdOf(digits) == ObjectOf(<<Entry(<<"i", "d">>, JNum(digits))>>)
\* {a: [{id: 1}, {id: 2}], b: 2}
ItemsDocument ==
  ObjectOf(<<Entry(<<"a">>, JArr(<<IdOf(<<"1">>), IdOf(<<"2">>)>>)), Entry(<<"b">>, JNum(<<"2">>))>>)
PathDocuments ==
  {ItemsDocument, IdOf(<<"7">>), JArr(<<IdOf(<<"1">>), JStr(<<"x", "y">>)>>), JArr(<<>>),
   JStr(<<"x", "y">>), JNum(<<"5">>), JNum(<<"0">>), JNull}
Expressions ==
  SeqsUpTo({" "}, 2)
    \cup {<<"$">> \o steps : steps \in SeqsUpTo(PathTokens, MaxSteps)}
    \cup {<<" ", "$", ".b">>, <<"$", ".b", " ">>, <<"$", MalformedFilter, " ">>}

JsonPathInit ==
  /\ \E data \in PathDocuments, expression \in Expressions : args = <<data, expression>>
  /\ ret = <<>>
  /\ BatchIdle
  /\ ResolverIdle
  /\ StoreIdle

\* one call of applyJsonPath(data, expression)
ApplyJsonPath ==
  /\ ret = <<>>
  /\ ret' = <<applyJsonPath(args[1], args[2])>>
  /\ UNCHANGED <<args, batchVars, resolverVars, storeVars>>

JsonPathNext == ApplyJsonPath

SpecJsonPath == JsonPathInit /\ [][JsonPathNext]_vars

\* an expression that is not a JSONPath: it has a malformed token
InvalidExpression(expression) ==
  \E i \in 1..Len(expression) : expression[i] \in {MalformedBrackets, MalformedFilter}
GaveResult(outcome, value) == ~outcome.threw /\ outcome.error = "" /\ DeepEqual(outcome.result, value)
GaveError(outcome) == ~outcome.threw /\ outcome.error # ""

\* C19: applyJsonPath never throws; a blank expression gives the data; a
\* valid expression gives the one match unwrapped, the list of the matches
\* in document order, or the error 'No matches found' when there is none;
\* an invalid expression gives an error with another message.
C19_TypedResult ==
  Len(ret) = 1 /\ Len(args) = 2 =>
    LET data == args[1]
        expression == args[2]
        found == JSONPath(expression, data)
        matches == ValuesOf(found.nodes)
    IN  /\ ~ret[1].threw
        /\ Trim(expression) = <<>> => GaveResult(ret[1], data)
        /\ Trim(expression) # <<>> /\ InvalidExpression(expression) =>
             GaveError(ret[1]) /\ ret[1].error # NoMatchesFound
        /\ Trim(expression) # <<>> /\ ~InvalidExpression(expression) =>
             /\ Len(matches) = 1 => GaveResult(ret[1], matches[1])
             /\ Len(matches) > 1 => GaveResult(ret[1], JArr(matches))
             /\ Len(matches) = 0 => GaveError(ret[1]) /\ ret[1].error = NoMatchesFound

\* '$.a[*].id' on {a: [{id: 1}, {id: 2}], b: 2} gives [1, 2]
C19_Example ==
  /\ Len(args) = 2
  /\ DeepEqual(args[1], ItemsDocument)
  /\ args[2] = <<"$", ".a", "[*]", ".id">>
  /\ Len(ret) = 1
  /\ GaveResult(ret[1], JArr(<<JNum(<<"1">>), JNum(<<"2">>)>>))

\* -------------------------------------------------------- computeDifferences
RESPONSE_TIME_THRESHOLD_MS == 500

\* Math.abs
Abs(n) == IF n < 0 THEN -n ELSE n
\* responseTime || 0, for a time that is <<>> (missing) or <<t>>
OrZero(time) == IF time = <<>> THEN 0 ELSE time[1]

\* A host response is [hostId, response, responseTime]: response is <<>>
\* (none) or <<status>>, responseTime is <<>> (missing) or <<milliseconds>>.
computeDifferencesAtThreshold(referenceResponse, hostResponse) ==
  LET statusDiff ==
        IF referenceResponse.response # hostResponse.response
          THEN <<[path |-> "status", referenceValue |-> referenceResponse.response,
                  hostValue |-> hostResponse.response, type |-> "modified"]>>
          ELSE <<>>
      refTime == OrZero(referenceResponse.responseTime)
      hostTime == OrZero(hostResponse.responseTime)
      timeDiff ==
        IF Abs(refTime - hostTime) >= RESPONSE_TIME_THRESHOLD_MS
          THEN <<[path |-> "responseTime", referenceValue |-> <<refTime>>,
                  hostValue |-> <<hostTime>>, type |-> "modified"]>>
          ELSE <<>>
  IN  [hostId |-> hostResponse.hostId, differences |-> statusDiff \o timeDiff]

computeDifferences(referenceResponse, hostResponse) ==
  LET statusDiff ==
        IF referenceResponse.response # hostResponse.response
          THEN <<[path |-> "status", referenceValue |-> referenceResponse.response,
                  hostValue |-> hostResponse.response, type |-> "modified"]>>
          ELSE <<>>
      refTime == OrZero(referenceResponse.responseTime)
      hostTime == OrZero(hostResponse.responseTime)
      timeDiff ==
        IF Abs(refTime - hostTime) > RESPONSE_TIME_THRESHOLD_MS
          THEN <<[path |-> "responseTime", referenceValue |-> <<refTime>>,
                  hostValue |-> <<hostTime>>, type |-> "modified"]>>
          ELSE <<>>
  IN  [hostId |-> hostResponse.hostId, differences |-> statusDiff \o timeDiff]

\* ---------------------------------------------- computeDifferences alone
SampleStatuses == {200, 404, 500}
SampleTimes ==
  {0, 1, RESPONSE_TIME_THRESHOLD_MS - 1, RESPONSE_TIME_THRESHOLD_MS,
   RESPONSE_TIME_THRESHOLD_MS + 1, 2 * RESPONSE_TIME_THRESHOLD_MS + 1}
HostResponses(ids) ==
  [hostId : ids,
   response : {<<>>} \cup {<<status>> : status \in SampleStatuses},
   responseTime : {<<>>} \cup {<<time>> : time \in SampleTimes}]

DifferencesInit ==
  /\ \E referenceResponse \in HostResponses({"host-1"}),
        hostResponse \in HostResponses({"host-1", "host-2"}) :
       args = <<referenceResponse, hostResponse>>
  /\ ret = <<>>
  /\ BatchIdle
  /\ ResolverIdle
  /\ StoreIdle

\* one call of computeDifferences(referenceResponse, hostResponse)
ComputeDifferences ==
  /\ ret = <<>>
  /\ ret' = <<computeDifferences(args[1], args[2])>>
  /\ UNCHANGED <<args, batchVars, resolverVars, storeVars>>

DifferencesNext == ComputeDifferences

SpecDifferences == DifferencesInit /\ [][DifferencesNext]_vars

PathsOf(result) == [k \in 1..Len(result.differences) |-> result.differences[k].path]
Reports(result, path) == \E k \in 1..Len(result.differences) : result.differences[k].path = path

\* C20: computeDifferences reports 'status' whenever the two status codes
\* differ, also when exactly one side has no response; it reports
\* 'responseTime' if and only if the two times, a missing one counted as 0,
\* are more than 500 apart; it reports nothing else and carries the hostId
\* of the compared host.
C20_StatusAndTime ==
  Len(ret) = 1 /\ Len(args) = 2 =>
    LET reference == args[1]
        host == args[2]
        refTime == IF reference.responseTime = <<>> THEN 0 ELSE reference.responseTime[1]
        hostTime == IF host.responseTime = <<>> THEN 0 ELSE host.responseTime[1]
        apart == IF refTime > hostTime THEN refTime - hostTime ELSE hostTime - refTime
    IN  /\ reference.response # host.response => Reports(ret[1], "status")
        /\ Reports(ret[1], "responseTime") <=> apart > 500
        /\ \A k \in 1..Len(ret[1].differences) :
             ret[1].differences[k].path \in {"status", "responseTime"}
        /\ ret[1].hostId = host.hostId

\* a reference without a response and without a time against a host that
\* answered 200 after 501 ms: both entries, for host-2
C20_Witness ==
  /\ Len(ret) = 1
  /\ Len(args) = 2
  /\ args[1].response = <<>>
  /\ args[1].responseTime = <<>>
  /\ args[2] = [hostId |-> "host-2", response |-> <<200>>, responseTime |-> <<501>>]
  /\ PathsOf(ret[1]) = <<"status", "responseTime">>
  /\ ret[1].hostId = "host-2"

\* -------------------------------------------------------- comparisonStore
\* parseHosts(input) for an array: one parsed host per element, in order
parseHosts(input) == [k \in 1..Len(input) |-> parseHost(input[k])]

\* crypto.randomUUID(): the n-th id issued, different from every other one
randomUUID(n) == <<"uuid", n, 0>>

\* the id addHosts gives to the new host at the given index:
\* crypto.randomUUID() where it exists, `host-${Date.now()}-${index}` otherwise
NewHostId(cr, time, index) ==
  IF cr.randomUUID THEN randomUUID(cr.issued + index + 1) ELSE <<"host", time, index>>

\* what is left of crypto after addHosts has drawn one id per new host
AfterIds(cr, count) == IF cr.randomUUID THEN [cr EXCEPT !.issued = @ + count] ELSE cr

HasReference(hostList) == \E k \in 1..Len(hostList) : hostList[k].isReference

\* addHosts that puts the new hosts before the existing ones
addHostsPrepend(state, hostInputs, cr, time) ==
  LET parsed == parseHosts(hostInputs)
      hasReference == HasReference(state.hosts)
      newHosts == [k \in 1..Len(parsed) |->
                     [id |-> NewHostId(cr, time, k - 1),
                      value |-> parsed[k].original,
                      isReference |-> ~hasReference /\ Len(state.hosts) = 0 /\ k - 1 = 0,
                      normalizedUrl |-> parsed[k].normalized]]
  IN  [state EXCEPT !.hosts = newHosts \o state.hosts]

\* addHosts(hostInputs)
addHosts(state, hostInputs, cr, time) ==
  LET parsed == parseHosts(hostInputs)
      hasReference == HasReference(state.hosts)
      newHosts == [k \in 1..Len(parsed) |->
                     [id |-> NewHostId(cr, time, k - 1),
                      value |-> parsed[k].original,
                      isReference |-> ~hasReference /\ Len(state.hosts) = 0 /\ k - 1 = 0,
                      normalizedUrl |-> parsed[k].normalized]]
  IN  [state EXCEPT !.hosts = state.hosts \o newHosts]

\* hosts.find(h => h.id === id): <<>> or <<the first host with that id>>
FindHost(hostList, id) ==
  LET P == {k \in 1..Len(hostList) : hostList[k].id = id}
  IN  IF P = {} THEN <<>> ELSE <<hostList[CHOOSE k \in P : \A j \in P : k <= j]>>

\* hosts.filter(h => h.id !== id)
WithoutHost(hostList, id) == SelectSeq(hostList, LAMBDA h : h.id # id)

\* TRUE when removeHost(id) writes isReference = true into the first
\* remaining host
PromotesFirst(hostList, id) ==
  /\ FindHost(hostList, id) # <<>>
  /\ FindHost(hostList, id)[1].isReference
  /\ Len(WithoutHost(hostList, id)) > 0

\* removeHost that never names a new reference
removeHostKeepFlags(state, id) == [state EXCEPT !.hosts = WithoutHost(state.hosts, id)]

\* removeHost(id)
removeHost(state, id) ==
  IF PromotesFirst(state.hosts, id)
    THEN [state EXCEPT !.hosts = [WithoutHost(state.hosts, id) EXCEPT ![1].isReference = TRUE]]
    ELSE [state EXCEPT !.hosts = WithoutHost(state.hosts, id)]

\* updateHost(id, value)
updateHost(state, id, value) ==
  LET parsed == parseHosts(<<value>>)[1]
  IN  [state EXCEPT !.hosts =
         [k \in 1..Len(state.hosts) |->
            IF state.hosts[k].id = id
              THEN [state.hosts[k] EXCEPT !.value = value, !.normalizedUrl = parsed.normalized]
              ELSE state.hosts[k]]]

\* setReferenceHost(id)
setReferenceHost(state, id) ==
  [state EXCEPT !.hosts =
     [k \in 1..Len(state.hosts) |-> [state.hosts[k] EXCEPT !.isReference = (state.hosts[k].id = id)]]]

\* setIsExecuting(executing)
setIsExecuting(state, executing) == [state EXCEPT !.isExecuting = executing]

\* addComparison(comparison)
addComparison(state, comparison) == [state EXCEPT !.comparisons = Append(@, comparison)]

\* { ...c, ...updates }
Spread(c, updates) ==
  [k \in DOMAIN c \cup DOMAIN updates |-> IF k \in DOMAIN updates THEN updates[k] ELSE c[k]]

\* updateComparison that adds the comparison when the store has none with
\* that id
updateComparisonUpsert(state, id, updates) ==
  IF \E k \in 1..Len(state.comparisons) : state.comparisons[k].id = id
    THEN [state EXCEPT !.comparisons =
            [k \in 1..Len(state.comparisons) |->
               IF state.comparisons[k].id = id THEN Spread(state.comparisons[k], updates)
               ELSE state.comparisons[k]]]
    ELSE [state EXCEPT !.comparisons = Append(@, Spread([id |-> id], updates))]

\* updateComparison(id, updates)
updateComparison(state, id, updates) ==
  [state EXCEPT !.comparisons =
     [k \in 1..Len(state.comparisons) |->
        IF state.comparisons[k].id = id THEN Spread(state.comparisons[k], updates)
        ELSE state.comparisons[k]]]

\* clearComparisons()
clearComparisons(state) == [state EXCEPT !.comparisons = <<>>]

\* updateGlobalOptions(options)
updateGlobalOptions(state, options) == [state EXCEPT !.globalOptions = Spread(@, options)]

\* -------------------------------------------------- useComparisonExecution
\* most calls of execute and executeSingle in one behaviour
MaxRuns == 2
\* most hosts and most commands in the store
MaxStoreHosts == 2
MaxStoreCommands == 3
\* the last value of Date.now()
MaxClock == 1

\* The command texts of the store, character by character: two commands and
\* a blank line.
CurlA == <<"c", "u", "r", "l", " ", "/", "a">>
CurlB == <<"c", "u", "r", "l", " ", "/", "b">>
BlankCommand == <<" ">>
SampleCurlValues == {CurlA, CurlB, BlankCommand}

\* What the transport does with the request of command i to host j, for a
\* whole batch: every request answered ("answers"), or all but those to the
\* first host.
SampleTransports == {"first host fails"}
Answers200(transport, i, j) ==
  transport = "answers" \/ (transport = "first host fails" /\ j # 1)

\* The value executeCurlBatch(curlCommands, hosts, mode) resolves with: one
\* entry per command in command order, in each one result per host in host
\* order (in both modes).
BatchResults(batch, transport) ==
  [i \in 1..Len(batch.curlCommands) |->
     [curlIndex |-> i - 1,
      curlCommand |-> batch.curlCommands[i],
      results |-> [j \in 1..Len(batch.hosts) |->
                     IF Answers200(transport, i, j)
                       THEN SuccessResult(batch.hosts[j], 200, 0)
                       ELSE FailureResult(batch.hosts[j], "Network Error", 0)]]]

\* hosts.map(h => h.value)
HostValues(hostList) == [k \in 1..Len(hostList) |-> hostList[k].value]

\* the command texts with the blank ones left in
CurlValuesUnfiltered(commands) == [k \in 1..Len(commands) |-> commands[k].value]

\* curlCommands.map(c => c.value).filter(v => v.trim().length > 0)
CurlValues(commands) ==
  SelectSeq([k \in 1..Len(commands) |-> commands[k].value], LAMBDA v : Len(Trim(v)) > 0)

\* hosts.find(h => h.isReference) || hosts[0]
ReferenceHost(hostList) ==
  LET P == {k \in 1..Len(hostList) : hostList[k].isReference}
  IN  IF P = {} THEN hostList[1] ELSE hostList[CHOOSE k \in P : \A j \in P : k <= j]

\* the HostResponse built from the execution result r at the given index
\* (counted from 1)
HostResponseAt(hostList, r, index) ==
  [hostId |-> IF index <= Len(hostList) THEN hostList[index].id ELSE r.hostId,
   hostValue |-> r.hostValue,
   response |-> IF r.response # <<>> THEN <<r.response[1].status>> ELSE <<>>,
   error |-> r.error,
   isLoading |-> FALSE,
   responseTime |-> r.responseTime]

HostResponsesOf(hostList, executionResults) ==
  [j \in 1..Len(executionResults) |-> HostResponseAt(hostList, executionResults[j], j)]

\* hostResponses.find(hr => hr.hostId === referenceHost.id) and the
\* differences of every response against it
DifferencesOf(hostResponses, referenceHost) ==
  LET P == {k \in 1..Len(hostResponses) : hostResponses[k].hostId = referenceHost.id}
  IN  [k \in 1..Len(hostResponses) |->
         IF P = {} THEN [hostId |-> hostResponses[k].hostId, differences |-> <<>>]
         ELSE computeDifferences(hostResponses[CHOOSE n \in P : \A m \in P : n <= m],
                                 hostResponses[k])]

\* the id execute gives to a comparison: `comp-${Date.now()}-${curlIndex}`
ComparisonId(time, curlIndex) == <<"comp", time, curlIndex>>

\* the comparison execute builds from one entry of the batch results; the
\* optional field options is <<>> or <<the options>>
ComparisonOf(run, entry, time) ==
  [id |-> ComparisonId(time, entry.curlIndex),
   curlIndex |-> entry.curlIndex,
   curlCommand |-> entry.curlCommand,
   parsedCurl |-> parseCurl(entry.curlCommand),
   timestamp |-> time,
   referenceHostId |-> ReferenceHost(run.hosts).id,
   hostResponses |-> HostResponsesOf(run.hosts, entry.results),
   differences |-> DifferencesOf(HostResponsesOf(run.hosts, entry.results), ReferenceHost(run.hosts)),
   status |-> "completed",
   options |-> <<run.globalOptions>>]

\* results.forEach(... addComparison(comparison)) from entry k on
RECURSIVE AddComparisons(_, _, _, _, _)
AddComparisons(state, run, entries, k, time) ==
  IF k > Len(entries) THEN state
  ELSE AddComparisons(addComparison(state, ComparisonOf(run, entries[k], time)),
                      run, entries, k + 1, time)

\* the updates executeSingle hands to updateComparison when its batch resolved
CompletedUpdates(run, entry, time) ==
  [timestamp |-> time,
   referenceHostId |-> ReferenceHost(run.hosts).id,
   hostResponses |-> HostResponsesOf(run.hosts, entry.results),
   differences |-> DifferencesOf(HostResponsesOf(run.hosts, entry.results), ReferenceHost(run.hosts)),
   status |-> "completed",
   options |-> IF run.comparison[1].options # <<>> THEN run.comparison[1].options
               ELSE <<run.globalOptions>>]

\* the same updates with the global options in place of the comparison's own
CompletedUpdatesGlobal(run, entry, time) ==
  [CompletedUpdates(run, entry, time) EXCEPT !.options = <<run.globalOptions>>]

\* comparisons.find(c => c.id === comparisonId): <<>> or <<the comparison>>
FindComparison(comparisonList, id) ==
  LET P == {k \in 1..Len(comparisonList) : comparisonList[k].id = id}
  IN  IF P = {} THEN <<>> ELSE <<comparisonList[CHOOSE k \in P : \A j \in P : k <= j]>>

\* A call of execute or executeSingle.  hosts, curlCommands, comparisons,
\* parallelMode and globalOptions are the values the hook read from the store
\* when it was rendered, which the call keeps to its end; batch is <<>> or
\* <<the arguments of its call of executeCurlBatch>>; trace lists the calls
\* it made on the store and on the executor, in order; path says how far it
\* got: "skipped" (first return), "blank" (no command left), "awaiting",
\* "resolved" or "threw".
NoId == <<"none", 0, 0>>
NewRun(op, state, id) ==
  [op |-> op, path |-> "skipped", hosts |-> state.hosts, curlCommands |-> state.curlCommands,
   comparisons |-> state.comparisons, parallelMode |-> state.parallelMode,
   globalOptions |-> state.globalOptions, comparisonId |-> id,
   comparison |-> FindComparison(state.comparisons, id), batch |-> <<>>, trace |-> <<>>,
   overlapped |-> FALSE]

InFlight(r) == runs[r].path = "awaiting"

\* execute() up to its first await: the guard, setIsExecuting(true),
\* clearComparisons(), the non-blank commands, and the call of
\* executeCurlBatch
executeCall(state) ==
  IF Len(state.hosts) = 0 \/ Len(state.curlCommands) = 0
    THEN [store |-> state, run |-> NewRun("execute", state, NoId)]
  ELSE IF Len(CurlValues(state.curlCommands)) = 0
    THEN [store |-> setIsExecuting(clearComparisons(setIsExecuting(state, TRUE)), FALSE),
          run |-> [NewRun("execute", state, NoId) EXCEPT
                     !.path = "blank",
                     !.trace = <<"setIsExecuting(true)", "clearComparisons", "setIsExecuting(false)">>]]
  ELSE [store |-> clearComparisons(setIsExecuting(state, TRUE)),
        run |-> [NewRun("execute", state, NoId) EXCEPT
                   !.path = "awaiting",
                   !.batch = <<[curlCommands |-> CurlValues(state.curlCommands),
                                hosts |-> parseHosts(HostValues(state.hosts)),
                                mode |-> state.parallelMode]>>,
                   !.trace = <<"setIsExecuting(true)", "clearComparisons", "executeCurlBatch">>]]

\* execute() after its await when the batch resolved with the given entries:
\* one addComparison per entry, then the finally block
executeResolved(state, run, entries, time) ==
  [store |-> setIsExecuting(AddComparisons(state, run, entries, 1, time), FALSE),
   run |-> [run EXCEPT !.path = "resolved",
                       !.trace = @ \o [k \in 1..Len(entries) |-> "addComparison"]
                                   \o <<"setIsExecuting(false)">>]]

\* a rejected batch that leaves the flag as it is
executeThrewNoFinally(state, run) ==
  [store |-> state, run |-> [run EXCEPT !.path = "threw"]]

\* execute() after its await when the batch was rejected: the empty catch,
\* then the finally block
executeThrew(state, run) ==
  [store |-> setIsExecuting(state, FALSE),
   run |-> [run EXCEPT !.path = "threw", !.trace = Append(@, "setIsExecuting(false)")]]

\* a re-run that starts without marking its comparison as loading
executeSingleCallSilent(state, comparisonId) ==
  IF FindComparison(state.comparisons, comparisonId) = <<>> \/ Len(state.hosts) = 0
    THEN [store |-> state, run |-> NewRun("executeSingle", state, comparisonId)]
  ELSE [store |-> state,
        run |-> [NewRun("executeSingle", state, comparisonId) EXCEPT
                   !.path = "awaiting",
                   !.batch = <<[curlCommands |-> <<FindComparison(state.comparisons, comparisonId)[1].curlCommand>>,
                                hosts |-> parseHosts(HostValues(state.hosts)),
                                mode |-> "all-at-once"]>>,
                   !.trace = <<"executeCurlBatch">>]]

\* executeSingle(comparisonId) up to its first await
executeSingleCall(state, comparisonId) ==
  IF FindComparison(state.comparisons, comparisonId) = <<>> \/ Len(state.hosts) = 0
    THEN [store |-> state, run |-> NewRun("executeSingle", state, comparisonId)]
  ELSE [store |-> updateComparison(state, comparisonId, [status |-> "loading"]),
        run |-> [NewRun("executeSingle", state, comparisonId) EXCEPT
                   !.path = "awaiting",
                   !.batch = <<[curlCommands |-> <<FindComparison(state.comparisons, comparisonId)[1].curlCommand>>,
                                hosts |-> parseHosts(HostValues(state.hosts)),
                                mode |-> "all-at-once"]>>,
                   !.trace = <<"updateComparison(loading)", "executeCurlBatch">>]]

\* executeSingle after its await when the batch was rejected, or resolved
\* without an entry
executeSingleThrew(state, run) ==
  [store |-> updateComparison(state, run.comparisonId, [status |-> "error"]),
   run |-> [run EXCEPT !.path = "threw", !.trace = Append(@, "updateComparison(error)")]]

\* a re-run that writes the global options over the comparison's own
executeSingleResolvedGlobal(state, run, entries, time) ==
  IF Len(entries) = 0 THEN executeSingleThrew(state, run)
  ELSE [store |-> updateComparison(state, run.comparisonId, CompletedUpdatesGlobal(run, entries[1], time)),
        run |-> [run EXCEPT !.path = "resolved", !.trace = Append(@, "updateComparison(completed)")]]

\* executeSingle after its await when the batch resolved with the given entries
executeSingleResolved(state, run, entries, time) ==
  IF Len(entries) = 0 THEN executeSingleThrew(state, run)
  ELSE [store |-> updateComparison(state, run.comparisonId, CompletedUpdates(run, entries[1], time)),
        run |-> [run EXCEPT !.path = "resolved", !.trace = Append(@, "updateComparison(completed)")]]

\* ------------------------------------------------ the hook and the store
serviceVars == <<batchVars, resolverVars, callVars>>

\* a run of execute is overlapped when another call of execute got past its
\* guard between its own call and its end
MarkOverlapped(runList) ==
  [k \in 1..Len(runList) |->
     IF runList[k].op = "execute" /\ runList[k].path = "awaiting"
       THEN [runList[k] EXCEPT !.overlapped = TRUE] ELSE runList[k]]

ExecuteInFlight == \E r \in 1..Len(runs) : runs[r].op = "execute" /\ InFlight(r)

\* execute() is called on the hook rendered from the current store
Execute ==
  /\ Len(runs) < MaxRuns
  /\ store' = executeCall(store).store
  /\ runs' = IF executeCall(store).run.path = "skipped"
               THEN Append(runs, executeCall(store).run)
               ELSE Append(MarkOverlapped(runs),
                           [executeCall(store).run EXCEPT !.overlapped = ExecuteInFlight])
  /\ UNCHANGED <<now, crypto, serviceVars>>

\* the values Date.now() can return: the one it returned last, or a later one
Clock == {time \in {now, now + 1} : time <= MaxClock}

\* the batch of run r resolves and execute runs to its end, at the given time
ExecuteResolved(r, transport, time) ==
  /\ InFlight(r)
  /\ runs[r].op = "execute"
  /\ store' = executeResolved(store, runs[r], BatchResults(runs[r].batch[1], transport), time).store
  /\ runs' = [runs EXCEPT ![r] =
                executeResolved(store, runs[r], BatchResults(runs[r].batch[1], transport), time).run]
  /\ now' = time
  /\ UNCHANGED <<crypto, serviceVars>>

\* the batch of run r is rejected and execute runs to its end
ExecuteRejected(r) ==
  /\ InFlight(r)
  /\ runs[r].op = "execute"
  /\ store' = executeThrew(store, runs[r]).store
  /\ runs' = [runs EXCEPT ![r] = executeThrew(store, runs[r]).run]
  /\ UNCHANGED <<now, crypto, serviceVars>>

\* executeSingle(comparisonId) is called on the hook rendered from the
\* current store
ExecuteSingle(comparisonId) ==
  /\ Len(runs) < MaxRuns
  /\ store' = executeSingleCall(store, comparisonId).store
  /\ runs' = Append(runs, executeSingleCall(store, comparisonId).run)
  /\ UNCHANGED <<now, crypto, serviceVars>>

\* the batch of the re-run r resolves, at the given time
SingleResolved(r, transport, time) ==
  /\ InFlight(r)
  /\ runs[r].op = "executeSingle"
  /\ store' = executeSingleResolved(store, runs[r], BatchResults(runs[r].batch[1], transport), time).store
  /\ runs' = [runs EXCEPT ![r] =
                executeSingleResolved(store, runs[r], BatchResults(runs[r].batch[1], transport), time).run]
  /\ now' = time
  /\ UNCHANGED <<crypto, serviceVars>>

\* the batch of the re-run r is rejected
SingleRejected(r) ==
  /\ InFlight(r)
  /\ runs[r].op = "executeSingle"
  /\ store' = executeSingleThrew(store, runs[r]).store
  /\ runs' = [runs EXCEPT ![r] = executeSingleThrew(store, runs[r]).run]
  /\ UNCHANGED <<now, crypto, serviceVars>>

\* updateGlobalOptions(options) is called
SampleOptionUpdates == {[ignoreIds |-> TRUE]}
UpdateGlobalOptions(options) ==
  /\ updateGlobalOptions(store, options) # store
  /\ store' = updateGlobalOptions(store, options)
  /\ UNCHANGED <<runs, now, crypto, serviceVars>>

\* The command lists of the store: the first commands of a sample list with
\* a blank line in it, and a list of one blank line.
CommandList(values, n) == [k \in 1..n |-> [id |-> <<"curl", k>>, value |-> values[k]]]
SampleCurlCommands ==
  {CommandList(<<CurlA, BlankCommand, CurlB, CurlA>>, n) : n \in 0..MaxStoreCommands}
  \cup {CommandList(<<BlankCommand>>, 1)}

\* a comparison saved without options, as addComparison accepts it
LegacyComparison ==
  [id |-> <<"comp-legacy", 0, 0>>, curlIndex |-> 0, curlCommand |-> CurlB, parsedCurl |-> parseCurl(CurlB),
   timestamp |-> 0, referenceHostId |-> randomUUID(1), hostResponses |-> <<>>, differences |-> <<>>,
   status |-> "completed", options |-> <<>>]

\* the comparisons a store holds after one earlier call of execute(), made
\* at time 0, has run to its end
EarlierRun(state) ==
  IF executeCall(state).run.path = "awaiting"
    THEN executeResolved(executeCall(state).store, executeCall(state).run,
                         BatchResults(executeCall(state).run.batch[1], "answers"), 0).store.comparisons
    ELSE <<>>

UnknownId == <<"unknown", 0, 0>>

\* The store after addHosts, setCurlCommands and setParallelMode('per-curl'),
\* holding a comparison saved without options or what an earlier run left.
SampleStores ==
  {[addHosts(InitialStore, SubSeq(SampleHostTexts, 1, n), [randomUUID |-> TRUE, issued |-> 0], 0)
      EXCEPT !.curlCommands = commands, !.parallelMode = "per-curl"] :
     n \in 0..MaxStoreHosts, commands \in SampleCurlCommands}

HookInit ==
  /\ \E state \in SampleStores, previous \in {"legacy", "earlier run"} :
       store = [state EXCEPT !.comparisons =
                  IF previous = "legacy" THEN <<LegacyComparison>> ELSE EarlierRun(state)]
  /\ crypto = [randomUUID |-> TRUE, issued |-> Len(store.hosts)]
  /\ runs = <<>>
  /\ now = 0
  /\ BatchIdle
  /\ ResolverIdle
  /\ args = <<>>
  /\ ret = <<>>

\* the ids executeSingle is called with: the first comparison's, and one
\* that no comparison has
ComparisonIds == {store.comparisons[k].id : k \in 1..Len(store.comparisons) \cap {1}} \cup {UnknownId}

HookNext ==
  \/ Execute
  \/ \E r \in 1..Len(runs), transport \in SampleTransports, time \in Clock :
       ExecuteResolved(r, transport, time)
  \/ \E r \in 1..Len(runs) : ExecuteRejected(r)
  \/ \E id \in ComparisonIds : ExecuteSingle(id)
  \/ \E r \in 1..Len(runs), transport \in SampleTransports, time \in Clock :
       SingleResolved(r, transport, time)
  \/ \E r \in 1..Len(runs) : SingleRejected(r)
  \/ \E options \in SampleOptionUpdates : UpdateGlobalOptions(options)

SpecHook == HookInit /\ [][HookNext]_vars

\* ---------------------------------------------------------- hook: claims
\* run r of the next state was called, or moved on, in this step
Moved(r) == r > Len(runs) \/ runs[r].path # runs'[r].path

\* the position of the first occurrence of a call in a trace, 0 when absent
FirstCall(trace, call) ==
  LET P == {k \in 1..Len(trace) : trace[k] = call}
  IN  IF P = {} THEN 0 ELSE CHOOSE k \in P : \A j \in P : k <= j

HasHostsAndCommands(run) == Len(run.hosts) > 0 /\ Len(run.curlCommands) > 0

\* C21: a call of execute() with at least one host and one command sets
\* isExecuting to true before executeCurlBatch is called, and the step in
\* which it ends (no command left after the blank ones are dropped, batch
\* resolved, batch rejected) leaves isExecuting false; a call with no host or
\* no command returns at once, leaves the store as it is and calls nothing.
C21_ExecutingFlag ==
  [][\A r \in 1..Len(runs') :
       runs'[r].op = "execute" /\ Moved(r) =>
         /\ runs'[r].path = "skipped" <=> ~HasHostsAndCommands(runs'[r])
         /\ runs'[r].path = "skipped" =>
              store' = store /\ runs'[r].trace = <<>> /\ runs'[r].batch = <<>>
         /\ runs'[r].path = "awaiting" =>
              /\ store'.isExecuting
              /\ runs'[r].trace[1] = "setIsExecuting(true)"
              /\ FirstCall(runs'[r].trace, "executeCurlBatch") > 1
         /\ runs'[r].path \in {"blank", "resolved", "threw"} =>
              /\ ~store'.isExecuting
              /\ runs'[r].trace[1] = "setIsExecuting(true)"
              /\ runs'[r].trace[Len(runs'[r].trace)] = "setIsExecuting(false)"
         /\ runs'[r].path = "blank" => runs'[r].batch = <<>>]_vars

\* a call of execute() whose batch was rejected has ended and isExecuting is
\* false again
C21_Witness ==
  \E r \in 1..Len(runs) :
    /\ runs[r].op = "execute"
    /\ runs[r].path = "threw"
    /\ HasHostsAndCommands(runs[r])
    /\ runs[r].trace = <<"setIsExecuting(true)", "clearComparisons", "executeCurlBatch",
                         "setIsExecuting(false)">>
    /\ ~store.isExecuting

\* the command texts of a list that are not blank, in list order
NonBlank(commands) ==
  SelectSeq([k \in 1..Len(commands) |-> commands[k].value],
            LAMBDA v : \E i \in 1..Len(v) : v[i] \notin WhiteSpace)

Occurrences(trace, call) == Cardinality({k \in 1..Len(trace) : trace[k] = call})

\* the batch of run r resolved in this step
Resolves(r) == r <= Len(runs) /\ runs[r].path = "awaiting" /\ runs'[r].path = "resolved"

\* C22: a call of execute() that no other call of execute() overlaps clears
\* the comparisons once, before executeCurlBatch is called, and when its
\* batch has resolved the store holds one comparison per non-blank command, in
\* command order, each 'completed', with one host response per host of the
\* store in host order and with the global options the call was made with.
C22_OneComparisonPerCommand ==
  [][\A r \in 1..Len(runs') :
       runs'[r].op = "execute" /\ Resolves(r) /\ ~runs'[r].overlapped =>
         /\ Occurrences(runs'[r].trace, "clearComparisons") = 1
         /\ FirstCall(runs'[r].trace, "clearComparisons")
              < FirstCall(runs'[r].trace, "executeCurlBatch")
         /\ Len(store'.comparisons) = Len(NonBlank(store'.curlCommands))
         /\ \A k \in 1..Len(store'.comparisons) :
              /\ store'.comparisons[k].curlCommand = NonBlank(store'.curlCommands)[k]
              /\ store'.comparisons[k].curlIndex = k - 1
              /\ store'.comparisons[k].status = "completed"
              /\ Len(store'.comparisons[k].hostResponses) = Len(store'.hosts)
              /\ \A j \in 1..Len(store'.hosts) :
                   store'.comparisons[k].hostResponses[j].hostId = store'.hosts[j].id
              /\ store'.comparisons[k].options = <<runs'[r].globalOptions>>]_vars

\* a call made with three commands, the second one blank, two hosts, an
\* earlier comparison in the store and ignoreIds switched on has resolved:
\* the store holds the comparisons of the first and of the third command
C22_Witness ==
  \E r \in 1..Len(runs) :
    /\ runs[r].op = "execute"
    /\ runs[r].path = "resolved"
    /\ ~runs[r].overlapped
    /\ Len(runs[r].curlCommands) = 3
    /\ Len(runs[r].comparisons) > 0
    /\ runs[r].globalOptions.ignoreIds
    /\ Len(store.hosts) = 2
    /\ Len(store.comparisons) = 2
    /\ store.comparisons[1].curlCommand = CurlA
    /\ store.comparisons[2].curlCommand = CurlB
    /\ store.comparisons[2].options = <<runs[r].globalOptions>>
    /\ Len(store.comparisons[2].hostResponses) = 2

\* the comparison with the given id in a store state, <<>> when it has none
InStore(state, id) == FindComparison(state.comparisons, id)

\* the batch of run r settled in this step
Settles(r) == r <= Len(runs) /\ runs[r].path = "awaiting" /\ runs'[r].path \in {"resolved", "threw"}

\* C23: executeSingle(id), called for a comparison of the store while the
\* store has hosts, sets that comparison to 'loading' and calls
\* executeCurlBatch with that comparison's command alone, the hosts of the
\* store and 'all-at-once'; the step in which the batch settles leaves the
\* comparison, when the store still holds it, 'completed' with one host
\* response per host of the call, or 'error', never 'loading'; a call with an
\* unknown id or without hosts changes nothing and calls nothing.
C23_RerunStatus ==
  [][\A r \in 1..Len(runs') :
       runs'[r].op = "executeSingle" /\ Moved(r) =>
         /\ r > Len(runs) =>
              (runs'[r].path = "skipped" <=>
                 (InStore(store, runs'[r].comparisonId) = <<>> \/ Len(store.hosts) = 0))
         /\ runs'[r].path = "skipped" => store' = store /\ runs'[r].batch = <<>>
         /\ runs'[r].path = "awaiting" =>
              /\ InStore(store', runs'[r].comparisonId)[1].status = "loading"
              /\ runs'[r].trace = <<"updateComparison(loading)", "executeCurlBatch">>
              /\ runs'[r].batch =
                   <<[curlCommands |-> <<InStore(store, runs'[r].comparisonId)[1].curlCommand>>,
                      hosts |-> [j \in 1..Len(store.hosts) |-> parseHost(store.hosts[j].value)],
                      mode |-> "all-at-once"]>>
         /\ Settles(r) /\ InStore(store, runs'[r].comparisonId) # <<>> =>
              /\ InStore(store', runs'[r].comparisonId)[1].status
                   = (IF runs'[r].path = "resolved" THEN "completed" ELSE "error")
              /\ runs'[r].path = "resolved" =>
                   /\ Len(InStore(store', runs'[r].comparisonId)[1].hostResponses) = Len(runs'[r].hosts)
                   /\ \A j \in 1..Len(runs'[r].hosts) :
                        InStore(store', runs'[r].comparisonId)[1].hostResponses[j].hostId
                          = runs'[r].hosts[j].id]_vars

\* the comparison saved without host responses was re-run against the two
\* hosts of a store set to 'per-curl': it is 'completed' and has two responses
C23_Witness ==
  \E r \in 1..Len(runs) :
    /\ runs[r].op = "executeSingle"
    /\ runs[r].path = "resolved"
    /\ runs[r].comparison = <<LegacyComparison>>
    /\ runs[r].batch[1].mode = "all-at-once"
    /\ store.parallelMode = "per-curl"
    /\ Len(store.hosts) = 2
    /\ InStore(store, runs[r].comparisonId) # <<>>
    /\ InStore(store, runs[r].comparisonId)[1].status = "completed"
    /\ Len(InStore(store, runs[r].comparisonId)[1].hostResponses) = 2

\* C24: when the batch of a re-run resolves, the comparison keeps the
\* options the call found on it, also when the global options differ from
\* them; a comparison the call found without options gets the global options
\* of the call; id, curlIndex and curlCommand are as they were.
C24_OptionsKept ==
  [][\A r \in 1..Len(runs') :
       /\ runs'[r].op = "executeSingle"
       /\ Resolves(r)
       /\ InStore(store, runs'[r].comparisonId) # <<>>
       => /\ InStore(store', runs'[r].comparisonId)[1].options =
               (IF runs'[r].comparison[1].options # <<>>
                  THEN runs'[r].comparison[1].options
                  ELSE <<runs'[r].globalOptions>>)
          /\ InStore(store', runs'[r].comparisonId)[1].id = InStore(store, runs'[r].comparisonId)[1].id
          /\ InStore(store', runs'[r].comparisonId)[1].curlIndex
               = InStore(store, runs'[r].comparisonId)[1].curlIndex
          /\ InStore(store', runs'[r].comparisonId)[1].curlCommand
               = InStore(store, runs'[r].comparisonId)[1].curlCommand]_vars

\* a comparison made with the default options was re-run after ignoreIds was
\* switched on: it is 'completed' and still has the default options
C24_Witness ==
  \E r \in 1..Len(runs) :
    /\ runs[r].op = "executeSingle"
    /\ runs[r].path = "resolved"
    /\ runs[r].comparison # <<>>
    /\ runs[r].comparison[1].options = <<defaultOptions>>
    /\ runs[r].globalOptions.ignoreIds
    /\ store.globalOptions.ignoreIds
    /\ InStore(store, runs[r].comparisonId) # <<>>
    /\ InStore(store, runs[r].comparisonId)[1].status = "completed"
    /\ InStore(store, runs[r].comparisonId)[1].options = <<defaultOptions>>
    /\ InStore(store, runs[r].comparisonId)[1].curlCommand = runs[r].comparison[1].curlCommand

\* a comparison saved without options was re-run after ignoreIds was switched
\* on: it has the global options of the call
C24_Legacy ==
  \E r \in 1..Len(runs) :
    /\ runs[r].op = "executeSingle"
    /\ runs[r].path = "resolved"
    /\ runs[r].comparison = <<LegacyComparison>>
    /\ runs[r].globalOptions.ignoreIds
    /\ InStore(store, runs[r].comparisonId) # <<>>
    /\ InStore(store, runs[r].comparisonId)[1].options = <<runs[r].globalOptions>>

\* -------------------------------------------------- the store's host list
\* most ids crypto.randomUUID() issues in one behaviour
MaxIssued == 3

\* the host texts handed to addHosts and updateHost
SampleHostInputs == {<<"a">>, <<HTTPS, "b", "/">>}
SampleHostUpdate == <<"c", " ">>

\* the empty store, in a browser with or without crypto.randomUUID
StoreInit ==
  /\ store = InitialStore
  /\ crypto \in {[randomUUID |-> available, issued |-> 0] : available \in BOOLEAN}
  /\ now = 0
  /\ runs = <<>>
  /\ args = <<>>
  /\ ret = <<>>
  /\ BatchIdle
  /\ ResolverIdle

HostIds == {store.hosts[k].id : k \in 1..Len(store.hosts)}

\* addHosts(hostInputs) is called at the given time; args keeps the call
AddHosts(hostInputs, time) ==
  /\ Len(store.hosts) + Len(hostInputs) <= MaxStoreHosts
  /\ crypto.issued + Len(hostInputs) <= MaxIssued
  /\ store' = addHosts(store, hostInputs, crypto, time)
  /\ crypto' = AfterIds(crypto, Len(hostInputs))
  /\ now' = time
  /\ args' = <<"addHosts", hostInputs>>
  /\ UNCHANGED <<runs, ret, batchVars, resolverVars>>

\* removeHost(id) is called
RemoveHost(id) ==
  /\ store' = removeHost(store, id)
  /\ args' = <<"removeHost", id>>
  /\ UNCHANGED <<runs, now, crypto, ret, batchVars, resolverVars>>

\* updateHost(id, value) is called
UpdateHost(id, value) ==
  /\ store' = updateHost(store, id, value)
  /\ args' = <<"updateHost", id, value>>
  /\ UNCHANGED <<runs, now, crypto, ret, batchVars, resolverVars>>

\* setReferenceHost(id) is called with the id of a host of the store
SetReferenceHost(id) ==
  /\ store' = setReferenceHost(store, id)
  /\ args' = <<"setReferenceHost", id>>
  /\ UNCHANGED <<runs, now, crypto, ret, batchVars, resolverVars>>

StoreNext ==
  \/ \E hostInputs \in SeqsUpTo(SampleHostInputs, MaxStoreHosts), time \in Clock :
       AddHosts(hostInputs, time)
  \/ \E id \in HostIds \cup {UnknownId} : RemoveHost(id)
  \/ \E id \in HostIds : UpdateHost(id, SampleHostUpdate)
  \/ \E id \in HostIds : SetReferenceHost(id)

SpecStore == StoreInit /\ [][StoreNext]_vars

\* ---------------------------------------------------------- store: claims
\* the last call made on the store was of the given method
Called(state, method) == Len(state) > 0 /\ state[1] = method

\* C25: addHosts appends one host per input, in input order, after the hosts
\* the store held, whose id, value and isReference it leaves as they were;
\* the first new host is the reference exactly when the store held no host.
C25_AddHostsAppends ==
  [][Called(args', "addHosts") =>
       /\ Len(store'.hosts) = Len(store.hosts) + Len(args'[2])
       /\ \A k \in 1..Len(store.hosts) :
            /\ store'.hosts[k].id = store.hosts[k].id
            /\ store'.hosts[k].value = store.hosts[k].value
            /\ store'.hosts[k].isReference = store.hosts[k].isReference
       /\ \A k \in 1..Len(args'[2]) :
            store'.hosts[Len(store.hosts) + k].value = Trim(args'[2][k])
       /\ Len(args'[2]) > 0 =>
            (store'.hosts[Len(store.hosts) + 1].isReference <=> Len(store.hosts) = 0)]_vars

\* a second call of addHosts has added a host to a store that held one: the
\* first host is still the reference, the new one is not
C25_Witness ==
  /\ Called(args, "addHosts")
  /\ Len(args[2]) = 1
  /\ Len(store.hosts) = 2
  /\ store.hosts[1].value = <<"a">>
  /\ store.hosts[1].isReference
  /\ store.hosts[2].value = <<HTTPS, "b", "/">>
  /\ ~store.hosts[2].isReference


\* the positions of the hosts marked as the reference
References(hostList) == {k \in 1..Len(hostList) : hostList[k].isReference}

\* C28: after any sequence of addHosts, removeHost, updateHost and
\* setReferenceHost (of a present id) from the empty store, a store that
\* holds hosts marks exactly one of them as the reference.
C28_OneReference ==
  Len(store.hosts) > 0 => Cardinality(References(store.hosts)) = 1


\* ------------------------------------------------ scheduler: fan-out width
\* the positions whose request is out on the network, direct or through the proxy
RequestsInFlight == {s \in Slots : requests[s].st \in {"direct", "proxy"}}

\* C26: in per-curl mode the requests in flight never outnumber the hosts;
\* in all-at-once mode executeRequest has been called for every one of the
\* |commands| x |hosts| positions when the call reaches its await.
C26_FanOutWidth ==
  /\ (mode = "per-curl" /\ pc # "idle") =>
       Cardinality(RequestsInFlight) <= Len(hosts)
  /\ (mode = "all-at-once" /\ pc # "idle") =>
       /\ Len(allPromises) = Len(curlCommands) * Len(hosts)
       /\ \A s \in Slots : requests[s].st # "idle"

\* all-at-once: two commands on two hosts, all four requests in flight while
\* the call awaits
C26_Witness ==
  /\ mode = "all-at-once" /\ pc = "awaitAll"
  /\ Len(curlCommands) = 2 /\ Len(hosts) = 2
  /\ Cardinality(RequestsInFlight) = 4

\* per-curl: the second of two commands is in flight on both hosts, and
\* nothing else is
C26_PerCurlFull ==
  /\ mode = "per-curl" /\ pc = "awaitGroup" /\ loopI = 1
  /\ Len(curlCommands) = 2 /\ Len(hosts) = 2
  /\ RequestsInFlight = {<<2, 1>>, <<2, 2>>}


\* ------------------------------------------- preprocessData: array order
\* the elements of the sampled arrays: numbers whose order as numbers and as
\* texts differ, texts that differ in case only, the two spellings of one
\* accented letter, a nested array and an object holding an array
OrderElements ==
  {JNull, JNum(<<"2">>), JNum(<<"1", "0">>), JStr(<<"a">>), JStr(<<"A">>),
   JStr(<<EAcute>>), JStr(<<"e", CombiningAcute>>),
   JArr(<<JNum(<<"2">>), JNum(<<"1", "0">>)>>),
   JObj(<<Entry(<<"b">>, JArr(<<JStr(<<"b">>), JStr(<<"a">>)>>))>>)}
OrderValues ==
  {JArr(elements) : elements \in SeqsUpTo(OrderElements, MaxWidth)}
    \cup {JObj(<<Entry(<<"a">>, JArr(elements))>>) : elements \in SeqsUpTo(OrderElements, MaxWidth)}

\* the value v with the elements of its arrays in reverse order, for the
\* arrays at the nesting levels named in levels (1 for an outermost array)
Reverse(elements) == [k \in 1..Len(elements) |-> elements[Len(elements) + 1 - k]]
RECURSIVE Rearranged(_, _, _)
Rearranged(v, level, levels) ==
  IF v.t = "array"
    THEN JArr(IF level \in levels
                THEN Reverse([k \in 1..Len(v.e) |-> Rearranged(v.e[k], level + 1, levels)])
                ELSE [k \in 1..Len(v.e) |-> Rearranged(v.e[k], level + 1, levels)])
  ELSE IF v.t = "object"
    THEN JObj([k \in 1..Len(v.e) |-> Entry(v.e[k].s, Rearranged(v.e[k].e[1], level, levels))])
  ELSE v

\* ignoreArrayOrder alone, or with the other toggles
OrderOptions == {[AllOff EXCEPT !.ignoreArrayOrder = TRUE], AllOn}

ArrayOrderInit ==
  /\ \E data \in OrderValues, options \in OrderOptions, levels \in SUBSET {1, 2} :
       args = <<data, Rearranged(data, 1, levels), options>>
  /\ ret = <<>>
  /\ BatchIdle
  /\ ResolverIdle
  /\ StoreIdle

\* preprocessData is called on the value, then on its rearrangement
PreprocessBoth ==
  /\ Len(ret) < 2
  /\ ret' = Append(ret, preprocessData(args[Len(ret) + 1], args[3]))
  /\ UNCHANGED <<args, batchVars, resolverVars, storeVars>>

ArrayOrderNext == PreprocessBoth

SpecArrayOrder == ArrayOrderInit /\ [][ArrayOrderNext]_vars

\* C27: with ignoreArrayOrder on, two values that differ only by the order
\* of array elements, at any depth, give deep-equal results.
C27_ArrayOrderImmaterial ==
  Len(ret) = 2 => DeepEqual(ret[1], ret[2])


\* C29: isExecuting is true in every state in which the batch of a call of
\* execute() is in flight, also when calls of execute() overlap.
C29_ExecutingWhileInFlight ==
  ExecuteInFlight => store.isExecuting


\* a call of execute() made after run r got past its guard, and so cleared
\* the comparisons
ClearedAfter(runList, r) ==
  \E k \in (r + 1)..Len(runList) : runList[k].op = "execute" /\ runList[k].path # "skipped"

====
